---------------------------- MODULE Spec2Model ----------------------------
(***************************************************************************)
(* A model of the osxphotos export engine: PhotoInfo.export2 and           *)
(* PhotoInfo._export_photo (osxphotos/photoinfo/_photoinfo_export.py).     *)
(*                                                                         *)
(* The export directory is a map from paths to files, the library holds    *)
(* one source file per asset and kind (original image, live video), and    *)
(* the export database (ExportDB) is a map from paths to the record        *)
(* (uuid, original signature, exif signature, exif payload).               *)
(***************************************************************************)
EXTENDS Integers, Sequences, FiniteSets, TLC

\* ------------------------------------------------------------------ bounds
\* largest "(n)" suffix a destination stem may carry
MaxN == 2
\* the wall clock (modification times) stops here
MaxClock == 3
\* number of changes the environment makes to files (library edits, user edits, removals)
MaxEnv == 2
\* number of export runs in one behaviour
MaxRuns == 2
\* largest "(n)" suffix a stem with "_edited" may carry
MaxEdited == 1
\* most filenames a call passes after the first one
MaxExtra == 2
\* most directories a directory template renders for one photo
MaxDirs == 2
\* most rows the search index holds
MaxRows == 3

\* ------------------------------------------------------------- the library
None == "None"

Uuids == {"A", "B", "C"}

\* PhotoInfo.filename: all three assets share the stem "photo"
Filename(a) == IF a = "A" THEN "heic" ELSE "jpg"

\* PhotoInfo.live_photo
LivePhoto(a) == a \in {"A", "B"}

\* PhotoInfo.hasadjustments: A and C have been edited in Photos
HasAdjustments(a) == a \in {"A", "C"}

\* PhotoInfo.has_raw: C is a RAW+JPEG pair
HasRaw(a) == a = "C"

\* PhotoInfo.iscloudasset and PhotoInfo.incloud: A and B are in an iCloud library
\* and uploaded, C is not
IsCloudAsset(a) == a \in {"A", "B"}

InCloud(a) == a \in {"A", "B"}

\* source files of the library: PhotoInfo.path, PhotoInfo.path_live_photo,
\* PhotoInfo.path_edited and PhotoInfo.path_raw
Kinds == {"orig", "live", "edited", "raw"}

\* the extension of the render Photos keeps of an edited photo, and of a RAW image
EditedSuffix == "jpeg"

RawSuffix == "dng"

SrcIds == {<<a, k>> : a \in Uuids, k \in Kinds}

\* the files an asset has: every asset its original, a live photo its video, an
\* edited photo its render, a RAW+JPEG pair its RAW image
HasSource(a, k) ==
    \/ k = "orig"
    \/ k = "live" /\ LivePhoto(a)
    \/ k = "edited" /\ HasAdjustments(a)
    \/ k = "raw" /\ HasRaw(a)

\* ------------------------------------------------------ the export directory
Exts == {"heic", "jpg", "mov", "json", "xmp", "jpeg", "dng"}

\* the extensions the files of an edited export have: the render, the name the
\* export command builds from the photo's own suffix, and the sidecars
EditedExts == {"jpeg", "jpg", "json", "xmp"}

\* a path of the export directory: "photo.<e>" (n = 0) or "photo (n).<e>";
\* ed = 1 is the stem "photo_edited", incremented to "photo_edited (n)";
\* ed = 2 is an incremented stem with the identifier after it, "photo (n)_edited"
Paths ==
    {p \in [n : 0..MaxN, e : Exts, ed : 0..2] :
        \/ p.ed = 0 /\ p.e # EditedSuffix
        \/ p.ed = 1 /\ p.e \in EditedExts /\ p.n <= MaxEdited
        \/ p.ed = 2 /\ p.e \in EditedExts \ {"jpg"} /\ p.n > 0 /\ p.n <= MaxEdited}

NoFile == [kind |-> "none"]

\* a source the library knows is not on this disk (ismissing, the path is None)
Missing == [kind |-> "missing"]

NoPayload == <<>>

NullSig == <<>>

\* file contents: what was written (data) and the metadata embedded in it (exif)
RegFile(data, exif, mtime) == [kind |-> "file", data |-> data, exif |-> exif, mtime |-> mtime]

LinkTo(s) == [kind |-> "link", to |-> s]

\* the world an export call reads and writes
World(f, s, m, d, i, t) ==
    [fs |-> f, srcf |-> s, meta |-> m, db |-> d, info |-> i, now |-> t, thru |-> FALSE,
     log |-> <<>>]

\* dest.exists()
Exists(w, p) == w.fs[p].kind # "none"

\* the inode behind a directory entry: a hard link shares the source's inode
Inode(w, p) == IF w.fs[p].kind = "link" THEN w.srcf[w.fs[p].to] ELSE w.fs[p]

\* st_size: a function of the bytes of the file. The originals of B and C are a
\* burst pair: different images of the same size, written at the same time
Size(f) ==
    (IF f.data[1] = "A" THEN 10 ELSE IF f.data[1] \in {"B", "C"} THEN 20 ELSE 30)
    + (IF f.data[2] = "orig" THEN 0 ELSE 5)
    + f.data[3]
    + (IF f.exif = NoPayload THEN 0 ELSE 1)

\* dest.samefile(src)
SameFile(w, p, s) == w.fs[p].kind = "link" /\ w.fs[p].to = s

\* file_sig(path): the signature (size, mtime, name)
file_sig(w, p) == <<Size(Inode(w, p)), Inode(w, p).mtime, p>>

\* cmp_file(path, sig): the file's signature equals the stored one
cmp_file(w, p, sig) == sig # NullSig /\ file_sig(w, p) = sig

\* filecmp.cmp(src, dest) of the standard library (shallow=True): equal os.stat
\* signatures (size, mtime) are taken as equal files, otherwise sizes and bytes decide
filecmp_cmp(w, s, p) ==
    LET f1 == w.srcf[s]
        f2 == Inode(w, p)
    IN \/ (Size(f1) = Size(f2) /\ f1.mtime = f2.mtime)
       \/ (Size(f1) = Size(f2) /\ f1.data = f2.data /\ f1.exif = f2.exif)

\* the two files hold the same bytes
ByteIdentical(w, s, p) ==
    /\ Exists(w, p)
    /\ w.srcf[s].kind = "file"
    /\ Inode(w, p).data = w.srcf[s].data
    /\ Inode(w, p).exif = w.srcf[s].exif

\* dest.unlink()
Unlink(w, p) == [w EXCEPT !.fs[p] = NoFile]

\* utils._copy_file(src, dest): the copy keeps the source's bytes and modification
\* time. Over an existing hard link the copy either replaces the directory entry
\* or writes through the link into the file it shares (w.thru)
CopyFile(w, s, p) ==
    IF w.fs[p].kind = "link" /\ w.thru
    THEN [w EXCEPT !.srcf[w.fs[p].to] = w.srcf[s]]
    ELSE [w EXCEPT !.fs[p] = RegFile(w.srcf[s].data, w.srcf[s].exif, w.srcf[s].mtime)]

\* utils._hardlink_file(src, dest): os.link
HardlinkFile(w, s, p) == [w EXCEPT !.fs[p] = LinkTo(s)]

\* os.link raises FileExistsError when the path is taken
LinkFails(w, p) == Exists(w, p)

\* ------------------------------------------------------- the export database
EmptyEntry == [uuid |-> None, orig |-> NullSig, exif |-> NullSig, exifdata |-> NoPayload]

\* PhotoInfo.json(): the asset's metadata, serialized
Json(w, a) == <<a, w.meta[a]>>

\* export_db.get_uuid_for_file; ExportDBNoOp returns None
get_uuid_for_file(w, o, p) == IF o.use_db THEN w.db[p].uuid ELSE None

\* export_db.get_stat_exif_for_file
get_stat_exif_for_file(w, o, p) == IF o.use_db THEN w.db[p].exif ELSE NullSig

\* export_db.get_exifdata_for_file
get_exifdata_for_file(w, o, p) == IF o.use_db THEN w.db[p].exifdata ELSE NoPayload

\* the calls an export makes to the database and to exiftool, in the order it
\* makes them
Event(op, key, val) == [op |-> op, key |-> key, val |-> val]

Logged(w, op, key, val) == [w EXCEPT !.log = Append(@, Event(op, key, val))]

\* export_db.set_uuid_for_file(dest, uuid); ExportDBNoOp discards
set_uuid_for_file(w, o, p, a) ==
    Logged(IF o.use_db THEN [w EXCEPT !.db[p].uuid = a] ELSE w, "set_uuid_for_file", p, a)

\* export_db.set_info_for_uuid(uuid, self.json())
set_info_for_uuid(w, o, a) ==
    Logged(IF o.use_db THEN [w EXCEPT !.info[a] = Json(w, a)] ELSE w,
           "set_info_for_uuid", a, Json(w, a))

\* export_db.set_stat_orig_for_file(dest, file_sig(dest))
set_stat_orig_for_file(w, o, p) ==
    Logged(IF o.use_db THEN [w EXCEPT !.db[p].orig = file_sig(w, p)] ELSE w,
           "set_stat_orig_for_file", p, file_sig(w, p))

\* export_db.set_stat_exif_for_file(dest, sig)
set_stat_exif_for_file(w, o, p, sig) ==
    Logged(IF o.use_db THEN [w EXCEPT !.db[p].exif = sig] ELSE w,
           "set_stat_exif_for_file", p, sig)

\* export_db.set_exifdata_for_file(dest, data)
set_exifdata_for_file(w, o, p, data) ==
    Logged(IF o.use_db THEN [w EXCEPT !.db[p].exifdata = data] ELSE w,
           "set_exifdata_for_file", p, data)

\* the entries of paths whose files are gone are cleared when an entry is written
SetLedgerCollecting(w, o, a, p) ==
    LET r == set_exifdata_for_file(
                 set_stat_exif_for_file(
                     set_stat_orig_for_file(
                         set_info_for_uuid(set_uuid_for_file(w, o, p, a), o, a),
                         o, p),
                     o, p, NullSig),
                 o, p, NoPayload)
    IN [r EXCEPT !.db = [q \in Paths |-> IF o.use_db /\ ~Exists(r, q) THEN EmptyEntry ELSE r.db[q]]]

\* the signature is recorded first and the owner last
SetLedgerBackwards(w, o, a, p) ==
    set_uuid_for_file(
        set_info_for_uuid(
            set_exifdata_for_file(
                set_stat_exif_for_file(set_stat_orig_for_file(w, o, p), o, p, NullSig),
                o, p, NoPayload),
            o, a),
        o, p, a)

\* the five setters every copying, linking or adopting branch calls:
\* set_uuid_for_file, set_info_for_uuid, set_stat_orig_for_file,
\* set_stat_exif_for_file(dest, (None, None, None)), set_exifdata_for_file(dest, None)
SetLedger(w, o, a, p) ==
    set_exifdata_for_file(
        set_stat_exif_for_file(
            set_stat_orig_for_file(
                set_info_for_uuid(set_uuid_for_file(w, o, p, a), o, a),
                o, p),
            o, p, NullSig),
        o, p, NoPayload)


\* ------------------------------------------------------------ _export_photo
\* ExportResults of one _export_photo call, or the exception it raised
Results(w, exported, new, updated, skipped) ==
    [w |-> w, exported |-> exported, new |-> new, updated |-> updated,
     skipped |-> skipped, err |-> None]

Raised(w, e) ==
    [w |-> w, exported |-> <<>>, new |-> <<>>, updated |-> <<>>, skipped |-> <<>>, err |-> e]

\* the new and updated lists taken for one another
LinkAndRecordSwapped(w, o, a, s, p, new, updated) ==
    IF LinkFails(w, p)
    THEN Raised(w, "FileExistsError")
    ELSE Results(SetLedger(HardlinkFile(w, s, p), o, a, p), <<p>>, updated, new, <<>>)

\* _hardlink_file on a path, then the ledger setters
LinkAndRecord(w, o, a, s, p, new, updated) ==
    IF LinkFails(w, p)
    THEN Raised(w, "FileExistsError")
    ELSE Results(SetLedger(HardlinkFile(w, s, p), o, a, p), <<p>>, new, updated, <<>>)

\* the copy is made but "exported_files.append(dest_str)" is left out
CopyAndRecordUnlisted(w, o, a, s, p, new, updated) ==
    Results(SetLedger(CopyFile(w, s, p), o, a, p), <<>>, new, updated, <<>>)

\* _copy_file on a path, then the ledger setters
CopyAndRecord(w, o, a, s, p, new, updated) ==
    Results(SetLedger(CopyFile(w, s, p), o, a, p), <<p>>, new, updated, <<>>)

\* the destination is removed whether or not overwrite is set
RemoveIfExists(w, o, p) == IF Exists(w, p) THEN Unlink(w, p) ELSE w

\* "if overwrite and dest.exists(): dest.unlink()"
RemoveIfOverwrite(w, o, p) == IF o.overwrite /\ Exists(w, p) THEN Unlink(w, p) ELSE w

\* the copy mode's test (equal bytes, not the same file) used when linking
HardlinkSkipsByContent(w, s, p) == Exists(w, p) /\ filecmp_cmp(w, s, p) /\ ~SameFile(w, p, s)

\* "elif dest_exists and dest.samefile(src)": update, hardlink, already the right file
HardlinkSkips(w, s, p) == Exists(w, p) /\ SameFile(w, p, s)

\* "elif dest_exists and not exiftool and filecmp.cmp(src, dest) and not dest.samefile(src)"
CopySkipsOrig(w, o, s, p) ==
    Exists(w, p) /\ ~o.exiftool /\ filecmp_cmp(w, s, p) /\ ~SameFile(w, p, s)

\* "elif dest_exists and exiftool and cmp_file(dest_str, get_stat_exif_for_file(dest_str))
\*  and not dest.samefile(src)"
CopySkipsExif(w, o, s, p) ==
    /\ Exists(w, p)
    /\ o.exiftool
    /\ cmp_file(w, p, get_stat_exif_for_file(w, o, p))
    /\ ~SameFile(w, p, s)

\* the export_as_hardlink half of _export_photo
ExportPhotoHardlink(w, o, a, s, p) ==
    IF ~o.update
    THEN LinkAndRecord(RemoveIfOverwrite(w, o, p), o, a, s, p, <<>>, <<>>)
    ELSE IF HardlinkSkips(w, s, p)
    THEN Results(w, <<>>, <<>>, <<>>, <<p>>)
    ELSE IF Exists(w, p)
    THEN LinkAndRecord(Unlink(w, p), o, a, s, p, <<>>, <<p>>)
    ELSE LinkAndRecord(w, o, a, s, p, <<p>>, <<>>)

\* the copy half of _export_photo
ExportPhotoCopy(w, o, a, s, p) ==
    IF ~o.update
    THEN CopyAndRecord(RemoveIfOverwrite(w, o, p), o, a, s, p, <<>>, <<>>)
    ELSE IF CopySkipsOrig(w, o, s, p)
    THEN Results(set_stat_orig_for_file(w, o, p), <<>>, <<>>, <<>>, <<p>>)
    ELSE IF CopySkipsExif(w, o, s, p)
    THEN Results(w, <<>>, <<>>, <<>>, <<p>>)
    ELSE IF Exists(w, p)
    THEN CopyAndRecord(Unlink(w, p), o, a, s, p, <<>>, <<p>>)
    ELSE CopyAndRecord(w, o, a, s, p, <<p>>, <<>>)

\* PhotoInfo._export_photo(src, dest, update, export_db, overwrite, no_xattr,
\* export_as_hardlink, exiftool)
ExportPhoto(w, o, a, s, p) ==
    IF o.hardlink THEN ExportPhotoHardlink(w, o, a, s, p) ELSE ExportPhotoCopy(w, o, a, s, p)

\* what one _export_photo call saw and did, kept for the properties
CallRecord(w, o, a, s, p, r) ==
    [uuid |-> a, src |-> s, dest |-> p, opts |-> o,
     existed |-> Exists(w, p), same |-> SameFile(w, p, s),
     equal |-> Exists(w, p) /\ filecmp_cmp(w, s, p),
     srcfile |-> w.srcf[s],
     before |-> w.fs[p], after |-> r.w.fs[p],
     owner |-> w.db[p].uuid,
     fs_same |-> r.w.fs = w.fs /\ r.w.srcf = w.srcf,
     db_same |-> r.w.db = w.db /\ r.w.info = w.info,
     entry_before |-> w.db[p],
     sig_before |-> IF Exists(w, p) THEN file_sig(w, p) ELSE NullSig,
     entry |-> r.w.db[p], info |-> r.w.info[a],
     sig |-> IF Exists(r.w, p) THEN file_sig(r.w, p) ELSE NullSig,
     json |-> Json(w, a),
     log_before |-> w.log,
     log |-> SubSeq(r.w.log, Len(w.log) + 1, Len(r.w.log)),
     exported |-> r.exported, new |-> r.new, updated |-> r.updated,
     skipped |-> r.skipped, err |-> r.err]

\* ------------------------------------------------- destination resolution
\* the file behind a path of the library is on disk
OnDisk(w, s) == w.srcf[s].kind = "file"

\* PhotoInfo.ismissing: the original is not on this disk and PhotoInfo.path is None
IsMissing(w, a) == w.srcf[<<a, "orig">>].kind = "missing"

\* the source of the primary file: "src = self.path_edited" or "src = self.path"
SrcKind(o) == IF o.edited THEN "edited" ELSE "orig"

Primary(o, a) == <<a, SrcKind(o)>>

\* the name the export command passes for the edited version:
\* f"{edited_name.stem}_edited{edited_suffix}", the suffix taken from path_edited
\* or, when that is None, from the photo's filename
PassedSuffix(w, o, a) ==
    IF o.edited
    THEN IF OnDisk(w, <<a, "edited">>) THEN EditedSuffix ELSE Filename(a)
    ELSE Filename(a)

\* "if filename and len(filename) == 1": the filename passed is used. The options
\* say whether a filename was passed (named) and how many more followed it (extra)
UsesFilename(o) == o.named /\ o.extra = 0

\* the edited version goes by the name of the original
CandidateUnsuffixed(w, o, a) == [n |-> 0, e |-> Filename(a), ed |-> 0]

\* "dest = dest / fname": the filename passed, or
\* "pathlib.Path(self.filename).stem + edited_identifier + edited_suffix" for the
\* edited version taken from the library, or self.filename
Candidate(w, o, a) ==
    IF UsesFilename(o)
    THEN [n |-> 0, e |-> PassedSuffix(w, o, a), ed |-> IF o.edited THEN 1 ELSE 0]
    ELSE IF o.edited /\ ~o.photos
    THEN [n |-> 0, e |-> EditedSuffix, ed |-> 1]
    ELSE [n |-> 0, e |-> Filename(a), ed |-> 0]

\* the stems of glob(dest.parent / f"{dest.stem}*") that the increment can meet:
\* "photo", "photo (n)" for the stem "photo", and "photo_edited", "photo_edited (n)"
\* for the stem "photo_edited"
GlobStems(w, cand) == {p.n : p \in {q \in Paths : Exists(w, q) /\ q.ed = cand.ed}}

\* "while dest_new in dest_files: dest_new = f'{dest.stem} ({count})'; count += 1"
RECURSIVE IncrementLoop(_, _, _)
IncrementLoop(stems, dest_new, count) ==
    IF dest_new \in stems THEN IncrementLoop(stems, count, count + 1) ELSE dest_new

\* the increment of export2: the first stem among "photo", "photo (1)", ... that
\* no entry of the directory has
IncrementStem(w, cand) == IncrementLoop(GlobStems(w, cand), 0, 1)

\* glob(dest.parent / f"{dest.stem} (*{dest.suffix}"), in the order the listing gives
GlobSiblings(w, cand, order) ==
    SelectSeq([i \in 1..Len(order) |-> [cand EXCEPT !.n = order[i]]],
              LAMBDA p : Exists(w, p))

\* the comparison of the files is made only when there is a database to record in
IsUntrackedCopyInLedger(w, o, s, p) ==
    o.use_db /\ get_uuid_for_file(w, o, p) = None /\ filecmp_cmp(w, s, p)

\* "if dest_uuid is None and filecmp.cmp(src, dest)": a file exported before there
\* was a database
IsUntrackedCopy(w, o, s, p) == get_uuid_for_file(w, o, p) = None /\ filecmp_cmp(w, s, p)

\* the "for file_ in dest_files" loop: the first sibling owned by this uuid, or
\* untracked and equal to the source (then recorded in the database)
RECURSIVE FindSibling(_, _, _, _, _)
FindSibling(w, o, a, s, files) ==
    IF files = <<>>
    THEN [found |-> FALSE, w |-> w, dest |-> [n |-> 0, e |-> "jpg", ed |-> 0]]
    ELSE LET file_ == Head(files)
         IN IF get_uuid_for_file(w, o, file_) = a
            THEN [found |-> TRUE, w |-> w, dest |-> file_]
            ELSE IF IsUntrackedCopy(w, o, s, file_)
            THEN [found |-> TRUE, w |-> SetLedger(w, o, a, file_), dest |-> file_]
            ELSE FindSibling(w, o, a, s, Tail(files))

\* "if update and dest.exists()": find the right destination for this uuid
\* "if not found_match": increment the destination file
SiblingOrIncrement(w, f, cand) ==
    IF f.found
    THEN [w |-> f.w, dest |-> f.dest]
    ELSE [w |-> w, dest |-> [cand EXCEPT !.n = IncrementStem(w, cand)]]

\* "if dest_uuid != self.uuid": not the right file, find the right one
FindDestination(w, o, a, s, cand, order) ==
    IF IsUntrackedCopy(w, o, s, cand)
    THEN [w |-> SetLedger(w, o, a, cand), dest |-> cand]
    ELSE IF get_uuid_for_file(w, o, cand) = a
    THEN [w |-> w, dest |-> cand]
    ELSE SiblingOrIncrement(w, FindSibling(w, o, a, s, GlobSiblings(w, cand, order)), cand)

\* the increment looks at the names "photo.<ext>", "photo (n).<ext>" of the
\* requested extension only, not at the stems
FirstDestinationByName(w, o, a) ==
    LET cand == Candidate(w, o, a)
    IN IF ~o.update /\ o.increment /\ ~o.overwrite
       THEN [cand EXCEPT !.n = IncrementLoop({p.n : p \in {q \in Paths : Exists(w, q) /\ q.ed = cand.ed /\ q.e = cand.e}}, 0, 1)]
       ELSE cand

\* dest = dest / fname, then the increment when not update, increment, not overwrite
FirstDestination(w, o, a) ==
    LET cand == Candidate(w, o, a)
    IN IF ~o.update /\ o.increment /\ ~o.overwrite
       THEN [cand EXCEPT !.n = IncrementStem(w, cand)]
       ELSE cand

\* ------------------------------------------------------------------ export2
\* the outcome of one export2 call: the world it leaves, the destination it
\* resolved, the ExportResults it returns (or the exception it raises) and the
\* _export_photo calls it made
Outcome(w, dest, exported, new, updated, skipped, exif_updated, err, calls) ==
    [w |-> w, dest |-> dest, exported |-> exported, new |-> new, updated |-> updated,
     skipped |-> skipped, exif_updated |-> exif_updated, err |-> err, calls |-> calls]

\* "exported_files.extend(results.exported)" and so on for the four lists
Extend(m, r, o, a, s, p) ==
    Outcome(r.w, m.dest, m.exported \o r.exported, m.new \o r.new,
            m.updated \o r.updated, m.skipped \o r.skipped, <<>>, r.err,
            Append(m.calls, CallRecord(m.w, o, a, s, p, r)))

\* an _export_photo call, its results appended to the lists
ExtendWith(m, o, a, s, p) == Extend(m, ExportPhoto(m.w, o, a, s, p), o, a, s, p)

\* the destination the primary file is exported to, and the world after the
\* database adoptions made while looking for it
ResolveFrom(w, o, a, cand, order) ==
    IF ~o.photos /\ o.update /\ cand \in Paths /\ Exists(w, cand)
    THEN FindDestination(w, o, a, Primary(o, a), cand, order)
    ELSE [w |-> w, dest |-> cand]

ResolveDestination(w, o, a, order) == ResolveFrom(w, o, a, FirstDestination(w, o, a), order)

\* "if live_photo and self.live_photo": the live photo's .mov, unless
\* path_live_photo is None
ExportLive(first, o, a) ==
    IF first.err # None \/ ~(o.live /\ LivePhoto(a)) \/ ~OnDisk(first.w, <<a, "live">>)
    THEN first
    ELSE ExtendWith(first, o, a, <<a, "live">>, [first.dest EXCEPT !.e = "mov"])

\* an exception raised after files were exported: no results are returned
Failed(m, e) == Outcome(m.w, m.dest, <<>>, <<>>, <<>>, <<>>, <<>>, e, m.calls)

\* the RAW image goes by the name asked for, whatever the increment made of it
ExportRawUnincremented(m, o, a) ==
    IF m.err # None \/ ~(o.raw /\ HasRaw(a))
    THEN m
    ELSE IF ~OnDisk(m.w, <<a, "raw">>)
    THEN Failed(m, "TypeError")
    ELSE ExtendWith(m, o, a, <<a, "raw">>, [m.dest EXCEPT !.e = RawSuffix, !.n = 0])

\* "if raw_photo and self.has_raw": the RAW image, named by the stem of the
\* destination and the suffix of path_raw; pathlib.Path(self.path_raw) raises
\* TypeError when path_raw is None
ExportRaw(m, o, a) ==
    IF m.err # None \/ ~(o.raw /\ HasRaw(a))
    THEN m
    ELSE IF ~OnDisk(m.w, <<a, "raw">>)
    THEN Failed(m, "TypeError")
    ELSE ExtendWith(m, o, a, <<a, "raw">>, [m.dest EXCEPT !.e = RawSuffix])

\* "if not use_photos_export": the primary file
ExportPrimary(fd, o, a) ==
    ExtendWith(Outcome(fd.w, fd.dest, <<>>, <<>>, <<>>, <<>>, <<>>, None, <<>>),
               o, a, Primary(o, a), fd.dest)

MaterializeFiles(w, o, a, order) ==
    ExportRaw(ExportLive(ExportPrimary(ResolveDestination(w, o, a, order), o, a), o, a), o, a)

\* "if edited: if filename: filestem = dest.stem else: filestem = f'{dest.stem}_edited';
\*  dest = dest.parent / f'{filestem}.jpeg'"
PhotosDestination(o, dest) ==
    IF o.edited /\ ~o.named
    THEN [n |-> dest.n, e |-> "jpeg", ed |-> IF dest.n = 0 THEN 1 ELSE 2]
    ELSE dest

\* the file Photos writes: the stem it was given, and the suffix of what it exports
PhotosFile(o, a, dest) == [dest EXCEPT !.e = IF o.edited THEN EditedSuffix ELSE Filename(a)]

\* logging.warning(...)
Warned(w, key, what) == Logged(w, "logging.warning", key, what)

\* a fetch that returns nothing ends the call
PhotosExportOrRaise(w, o, a, dest, fetched) ==
    IF fetched
    THEN Outcome([w EXCEPT !.fs[PhotosFile(o, a, dest)] =
                               RegFile(<<a, "cloud", 0>>, NoPayload, w.now + 1)],
                 dest, <<PhotosFile(o, a, dest)>>, <<>>, <<>>, <<>>, <<>>, None, <<>>)
    ELSE Outcome(Warned(w, dest, "use_photos_export"), dest, <<>>, <<>>, <<>>, <<>>, <<>>,
                 "RuntimeError", <<>>)

\* "else: use_photo_export": _export_photo_uuid_applescript writes the file Photos
\* hands over into the directory and returns its path, or returns None:
\* "if exported is not None: exported_files.extend(exported) else: logging.warning(...)"
PhotosExportTo(w, o, a, dest, fetched) ==
    IF fetched
    THEN Outcome([w EXCEPT !.fs[PhotosFile(o, a, dest)] =
                               RegFile(<<a, "cloud", 0>>, NoPayload, w.now + 1)],
                 dest, <<PhotosFile(o, a, dest)>>, <<>>, <<>>, <<>>, <<>>, None, <<>>)
    ELSE Outcome(Warned(w, dest, "use_photos_export"), dest, <<>>, <<>>, <<>>, <<>>, <<>>,
                 None, <<>>)

PhotosExport(w, o, a, fetched) ==
    PhotosExportTo(w, o, a, PhotosDestination(o, FirstDestination(w, o, a)), fetched)

\* _exiftool_json_sidecar(): the metadata written to the sidecar and into the file
ExifPayload(w, a) == <<a, w.meta[a]>>

\* the sidecar goes by the name the caller asked for, whatever the increment made of it
WriteSidecarUnincremented(w, a, dest, ext) ==
    [w EXCEPT !.fs[[dest EXCEPT !.e = ext, !.n = 0]] =
                  RegFile(<<a, ext, w.meta[a]>>, NoPayload, w.now + 1)]

\* _write_sidecar(dest.parent / f"{dest.stem}.<ext>", sidecar_str)
WriteSidecar(w, a, dest, ext) ==
    [w EXCEPT !.fs[[dest EXCEPT !.e = ext]] = RegFile(<<a, ext, w.meta[a]>>, NoPayload, w.now + 1)]

\* the exception of _write_sidecar is logged and goes no further
WriteSidecarIfQuiet(sw, wanted, a, dest, ext, fails) ==
    IF sw.err # None \/ ~wanted
    THEN sw
    ELSE IF fails
    THEN [w |-> Warned(sw.w, dest, ext), err |-> None]
    ELSE [w |-> WriteSidecar(sw.w, a, dest, ext), err |-> None]

\* "if sidecar_json: ... try: self._write_sidecar(...) except Exception as e:
\*  logging.warning(...); raise e": open() may fail, and the exception leaves export2
WriteSidecarIf(sw, wanted, a, dest, ext, fails) ==
    IF sw.err # None \/ ~wanted
    THEN sw
    ELSE IF fails
    THEN [w |-> Warned(sw.w, dest, ext), err |-> "OSError"]
    ELSE [w |-> WriteSidecar(sw.w, a, dest, ext), err |-> None]

\* "if sidecar_json: ... if sidecar_xmp: ..."
WriteSidecars(w, o, a, dest, failing) ==
    WriteSidecarIf(WriteSidecarIf([w |-> w, err |-> None],
                                  o.sidecar_json, a, dest, "json", failing = "json"),
                   o.sidecar_xmp, a, dest, "xmp", failing = "xmp")

\* _write_exif_data(filepath): exiftool rewrites the file with the metadata in it;
\* on a hard link it writes either through the link or to a file of its own
WriteExifData(w, a, p, inplace) ==
    Logged(IF w.fs[p].kind = "link" /\ inplace
           THEN [w EXCEPT !.srcf[w.fs[p].to].exif = ExifPayload(w, a),
                          !.srcf[w.fs[p].to].mtime = w.now + 1]
           ELSE [w EXCEPT !.fs[p] = RegFile(Inode(w, p).data, ExifPayload(w, a), w.now + 1)],
           "_write_exif_data", p, ExifPayload(w, a))

\* the test made only for a payload that differs, not for a missing one
NeedsExifIfChanged(w, o, a, p) ==
    ~o.update
    \/ (get_exifdata_for_file(w, o, p) # NoPayload
        /\ get_exifdata_for_file(w, o, p) # ExifPayload(w, a))

\* "if old_data is None or files_are_different" in update mode; without update
\* every exported file is written
NeedsExif(w, o, a, p) ==
    ~o.update \/ get_exifdata_for_file(w, o, p) # ExifPayload(w, a)

\* the payload is recorded and the signature of the rewritten file is not
RecordExifStale(w, o, a, p) == set_exifdata_for_file(w, o, p, ExifPayload(w, a))

\* set_exifdata_for_file(f, payload); set_stat_exif_for_file(f, file_sig(f))
RecordExif(w, o, a, p) ==
    set_stat_exif_for_file(set_exifdata_for_file(w, o, p, ExifPayload(w, a)), o, p, file_sig(w, p))

\* "old_data = export_db.get_exifdata_for_file(exported_file)" in update mode
ReadExif(w, o, p) ==
    IF o.update THEN Logged(w, "get_exifdata_for_file", p, get_exifdata_for_file(w, o, p)) ELSE w

\* "for exported_file in exif_files"
RECURSIVE ExifLoop(_, _, _, _, _, _)
ExifLoop(w, o, a, inplace, files, done) ==
    IF files = <<>>
    THEN [w |-> w, exif_updated |-> done, err |-> None]
    ELSE LET f == Head(files)
         IN IF ~NeedsExif(w, o, a, f)
            THEN ExifLoop(ReadExif(w, o, f), o, a, inplace, Tail(files), done)
            ELSE IF ~Exists(w, f)
            THEN [w |-> ReadExif(w, o, f), exif_updated |-> done, err |-> "FileNotFoundError"]
            ELSE ExifLoop(RecordExif(WriteExifData(ReadExif(w, o, f), a, f, inplace), o, a, f),
                          o, a, inplace, Tail(files), Append(done, f))

\* "if update: exif_files = new + updated + skipped else: exif_files = exported"
ExifFiles(m, o) == IF o.update THEN m.new \o m.updated \o m.skipped ELSE m.exported

\* the metadata half of export2: sidecars, then exiftool
\* "if exiftool and update and exif_files: ... elif exiftool and exif_files: ..."
EmbedExif(w, m, o, a, inplace) ==
    IF o.exiftool
    THEN ExifLoop(w, o, a, inplace, ExifFiles(m, o), <<>>)
    ELSE [w |-> w, exif_updated |-> <<>>, err |-> None]

\* "return ExportResults(...)", unless _write_exif_data raised
ReturnResults(m, x) ==
    IF x.err # None
    THEN Outcome(x.w, m.dest, <<>>, <<>>, <<>>, <<>>, <<>>, x.err, m.calls)
    ELSE Outcome(x.w, m.dest, m.exported, m.new, m.updated, m.skipped,
                 x.exif_updated, None, m.calls)

\* the exception of a sidecar leaves export2 before exiftool is run
AfterSidecars(m, sw, o, a, inplace) ==
    IF sw.err # None
    THEN Outcome(sw.w, m.dest, <<>>, <<>>, <<>>, <<>>, <<>>, sw.err, m.calls)
    ELSE ReturnResults(m, EmbedExif(sw.w, m, o, a, inplace))

ExportMetadata(m, o, a, ch) ==
    AfterSidecars(m, WriteSidecars(m.w, o, a, m.dest, ch.sidecar), o, a, ch.inplace)

\* the check made only on the "if not use_photos_export" side
DestinationTakenInLibraryExport(w, o, dest) ==
    Exists(w, dest) /\ ~o.update /\ ~o.overwrite /\ ~o.increment /\ ~o.photos

\* "if dest.exists() and not update and not overwrite and not increment"
DestinationTaken(w, o, dest) == Exists(w, dest) /\ ~o.update /\ ~o.overwrite /\ ~o.increment

\* the choices a call leaves to its environment: the order the directory is
\* listed in, whether exiftool writes through a hard link, whether Photos
\* hands the file over, whether a copy writes through a hard link, and the
\* sidecar that cannot be written ("json", "xmp" or "none")
Choice(order, inplace, fetched, thru, sidecar) ==
    [order |-> order, inplace |-> inplace, fetched |-> fetched, thru |-> thru,
     sidecar |-> sidecar]

\* PhotoInfo.export2(dest, filename, ...)
\* an exception raised before any file is touched
Rejected(w, dest, e) == Outcome(w, dest, <<>>, <<>>, <<>>, <<>>, <<>>, e, <<>>)

\* the files, by Photos or from the library
ExportFiles(w, o, a, ch) ==
    IF o.photos THEN PhotosExport(w, o, a, ch.fetched) ELSE MaterializeFiles(w, o, a, ch.order)

\* an exception of _export_photo leaves export2; otherwise the metadata follows
ThenMetadata(m, o, a, ch) ==
    IF m.err # None
    THEN Outcome(m.w, m.dest, <<>>, <<>>, <<>>, <<>>, <<>>, m.err, m.calls)
    ELSE ExportMetadata(m, o, a, ch)

\* the check is left out
EditedNeverRejected(o, a) == FALSE

\* "if edited and not self.hasadjustments: raise ValueError"
EditedWithoutAdjustments(o, a) == o.edited /\ ~HasAdjustments(a)

\* "if not self.path_edited: raise FileNotFoundError": no filename was passed and
\* the name of the edited version cannot be built
EditedNameUnknown(w, o, a) ==
    ~UsesFilename(o) /\ o.edited /\ ~o.photos /\ ~OnDisk(w, <<a, "edited">>)

\* "if filename and len(filename) > 2: raise TypeError": filename holds the
\* positional arguments after dest
TooManyArguments(o) == o.named /\ 1 + o.extra > 2

\* "if not use_photos_export": path_edited or path is None, or
\* "if not os.path.isfile(src): raise FileNotFoundError"
SourceNotFound(w, o, a) == ~o.photos /\ ~OnDisk(w, Primary(o, a))

\* the exception came before "dest = dest / fname": no destination was named
NoDestination == [n |-> 0, e |-> "none", ed |-> 0]

export2(w, o, a, ch) ==
    IF EditedWithoutAdjustments(o, a)
    THEN Rejected(w, NoDestination, "ValueError")
    ELSE IF TooManyArguments(o)
    THEN Rejected(w, NoDestination, "TypeError")
    ELSE IF EditedNameUnknown(w, o, a)
    THEN Rejected(w, NoDestination, "FileNotFoundError")
    ELSE IF DestinationTaken(w, o, FirstDestination(w, o, a))
    THEN Rejected(w, FirstDestination(w, o, a), "FileExistsError")
    ELSE IF SourceNotFound(w, o, a)
    THEN Rejected(w, FirstDestination(w, o, a), "FileNotFoundError")
    ELSE ThenMetadata(ExportFiles(w, o, a, ch), o, a, ch)

\* ------------------------------------------------------------ export_photo
\* "return ExportResults([], [], [], [], [])"
Skipped(w, o, a) == Outcome(w, Candidate(w, o, a), <<>>, <<>>, <<>>, <<>>, <<>>, None, <<>>)

\* no photo is passed over
SkipsNothing(w, o, a) == FALSE

\* "if not download_missing: if photo.ismissing: ... elif not os.path.exists(photo.path): ...
\*  elif photo.ismissing and not photo.iscloudasset or not photo.incloud: ..."
SkipsMissing(w, o, a) ==
    IF ~o.download_missing
    THEN IsMissing(w, a) \/ ~OnDisk(w, <<a, "orig">>)
    ELSE (IsMissing(w, a) /\ ~IsCloudAsset(a)) \/ ~InCloud(a)

\* "use_photos_export = download_missing and (photo.ismissing or
\*  not os.path.exists(photo.path))"
UsePhotosExport(w, o, a) ==
    o.download_missing /\ (IsMissing(w, a) \/ ~OnDisk(w, <<a, "orig">>))

\* the arguments of the first photo.export2(dest_path, filename, ...)
OriginalArgs(w, o, a) ==
    [o EXCEPT !.photos = UsePhotosExport(w, o, a), !.named = TRUE, !.edited = FALSE,
              !.increment = TRUE]

\* the arguments of photo.export2(dest_path, edited_name, ..., edited=True, ...):
\* "use_photos_export = download_missing and photo.path_edited is None"
EditedArgs(w, o, a) ==
    [o EXCEPT !.photos = o.download_missing /\ ~OnDisk(w, <<a, "edited">>),
              !.named = TRUE, !.edited = TRUE, !.increment = TRUE,
              !.live = FALSE, !.raw = FALSE]

\* "results_exported.extend(export_results_edited.exported)" and so on
Joined(r1, r2) ==
    Outcome(r2.w, r1.dest, r1.exported \o r2.exported, r1.new \o r2.new,
            r1.updated \o r2.updated, r1.skipped \o r2.skipped,
            r1.exif_updated \o r2.exif_updated, r2.err, r1.calls \o r2.calls)

\* "if export_edited and photo.hasadjustments", unless
\* "not download_missing and photo.path_edited is None"
ExportEdited(r1, o, a, ch) ==
    IF r1.err # None \/ ~(o.export_edited /\ HasAdjustments(a))
    THEN r1
    ELSE IF ~o.download_missing /\ ~OnDisk(r1.w, <<a, "edited">>)
    THEN r1
    ELSE Joined(r1, export2(r1.w, EditedArgs(r1.w, o, a), a, ch))

\* export_photo(photo, dest, ...) of the export command, for one destination directory
export_photo(w, o, a, ch) ==
    IF SkipsMissing(w, o, a)
    THEN Skipped(w, o, a)
    ELSE ExportEdited(export2(w, OriginalArgs(w, o, a), a, ch), o, a, ch)

\* ---------------------------------------------------------- the state machine
VARIABLES
    fs,      \* the export directory: path -> file
    srcf,    \* the library: source id -> file
    meta,    \* the library: uuid -> version of the asset's metadata
    db,      \* ExportDB: path -> (uuid, orig signature, exif signature, exif payload)
    info,    \* ExportDB: uuid -> info json
    now,     \* the clock; every step takes one tick
    nenv,    \* changes made by the environment so far
    last,    \* the export2 call just made: its arguments, what it saw, what it returned
    run,     \* the export run in progress or just finished: its options and results
    prev,    \* the run completed before it
    dirs     \* the further directories of dest_paths: their files and ledger entries

vars == <<fs, srcf, meta, db, info, now, nenv, last, run, prev, dirs>>

Current == World(fs, srcf, meta, db, info, now)

NoCall == [kind |-> "none"]

NoRun == [kind |-> "none"]

\* the orders a directory listing may come in
Orders == {s \in [1..MaxN -> 1..MaxN] : \A i, j \in 1..MaxN : i # j => s[i] # s[j]}

Ascending == [i \in 1..MaxN |-> i]

\* more than one sibling "photo (n).<ext>" exists: only then the order matters
ManySiblings(w, a) ==
    Cardinality({p \in Paths : p.n >= 1 /\ p.e = Filename(a) /\ Exists(w, p)}) > 1

\* a copy made without unlinking first may find a hard link at its destination
CopyMayMeetLink(w, o) ==
    /\ ~o.update
    /\ ~o.overwrite
    /\ ~o.hardlink
    /\ ~o.photos
    /\ \E p \in Paths : w.fs[p].kind = "link"

\* the sidecars a call writes: each of them may be the one that cannot be written
SidecarFailures(o) ==
    (IF o.sidecar_json THEN {"json"} ELSE {}) \cup (IF o.sidecar_xmp THEN {"xmp"} ELSE {})

Choices(w, o, a) ==
    {Choice(order, inplace, fetched, thru, sidecar) :
        order \in (IF o.update /\ ManySiblings(w, a) THEN Orders ELSE {Ascending}),
        inplace \in (IF o.exiftool THEN BOOLEAN ELSE {FALSE}),
        fetched \in (IF o.photos THEN BOOLEAN ELSE {TRUE}),
        thru \in (IF CopyMayMeetLink(w, o) THEN BOOLEAN ELSE {FALSE}),
        sidecar \in {"none"}}

\* the model keeps the stems "photo" .. "photo (MaxN)": a call that would need a
\* further one is left out
DestinationFits(w, o, a, order) ==
    /\ FirstDestination(w, o, a) \in Paths
    /\ PhotosDestination(o, FirstDestination(w, o, a)) \in Paths
    /\ ResolveDestination(w, o, a, order).dest \in Paths

Init ==
    /\ fs = [p \in Paths |-> NoFile]
    /\ srcf = [s \in SrcIds |-> IF HasSource(s[1], s[2])
                                THEN RegFile(<<s[1], s[2], 0>>, NoPayload, 0)
                                ELSE NoFile]
    /\ meta = [a \in Uuids |-> 0]
    /\ db = [p \in Paths |-> EmptyEntry]
    /\ info = [a \in Uuids |-> NoPayload]
    /\ now = 0
    /\ nenv = 0
    /\ last = NoCall
    /\ run = NoRun
    /\ prev = NoRun
    /\ dirs = <<>>

\* an existing sibling "photo (n).<ext>" that the asset owns, or that has no owner
\* and holds the bytes of the asset's original
SiblingMatches(w, a, p) ==
    /\ p.n >= 1
    /\ p.e = Filename(a)
    /\ p.ed = 0
    /\ Exists(w, p)
    /\ \/ w.db[p].uuid = a
       \/ w.db[p].uuid = None /\ ByteIdentical(w, <<a, "orig">>, p)

\* what the properties read of a call: the arguments, the directory as the call
\* found it, and the outcome
CallSummary(w, o, a, r) ==
    [kind |-> "call", uuid |-> a, opts |-> o, dest |-> r.dest,
     cand |-> Candidate(w, o, a),
     stems |-> GlobStems(w, Candidate(w, o, a)), taken |-> Exists(w, Candidate(w, o, a)),
     owner |-> w.db[Candidate(w, o, a)].uuid,
     identical |-> ByteIdentical(w, Primary(o, a), Candidate(w, o, a)),
     equal |-> /\ Exists(w, Candidate(w, o, a))
               /\ OnDisk(w, Primary(o, a))
               /\ filecmp_cmp(w, Primary(o, a), Candidate(w, o, a)),
     matches |-> {p \in Paths : SiblingMatches(w, a, p)},
     log |-> r.w.log,
     owners |-> [p \in Paths |-> w.db[p].uuid],
     fs_same |-> r.w.fs = w.fs /\ r.w.srcf = w.srcf,
     db_same |-> r.w.db = w.db /\ r.w.info = w.info,
     exported |-> r.exported, new |-> r.new, updated |-> r.updated,
     skipped |-> r.skipped, exif_updated |-> r.exif_updated,
     err |-> r.err, calls |-> r.calls]

\* the world the call leaves, and the record of the call
Commit(r, o, a) ==
    /\ fs' = r.w.fs
    /\ srcf' = r.w.srcf
    /\ db' = r.w.db
    /\ info' = r.w.info
    /\ last' = CallSummary(Current, o, a, r)

\* one export2 call on asset a with options o
Export2Step(a, o, ch, depth) ==
    /\ now < depth
    /\ DestinationFits(Current, o, a, ch.order)
    /\ Commit(export2([Current EXCEPT !.thru = ch.thru], o, a, ch), o, a)
    /\ now' = now + 1
    /\ UNCHANGED <<meta, nenv>>

\* a caller of the library exports one asset
Export2Call(assets, opts, depth) ==
    \E a \in assets, o \in opts :
        \E ch \in Choices(Current, o, a) :
            /\ Export2Step(a, o, ch, depth)
            /\ UNCHANGED <<run, prev, dirs>>

\* an export2 call during which one of its sidecars cannot be written
Export2SidecarFails(assets, opts, depth) ==
    \E a \in assets, o \in opts :
        \E ch \in Choices(Current, o, a), failing \in SidecarFailures(o) :
            /\ Export2Step(a, o, [ch EXCEPT !.sidecar = failing], depth)
            /\ UNCHANGED <<run, prev, dirs>>

\* the destinations of the two export2 calls of export_photo are among the
\* stems the model keeps
ExportsEditedToo(w, o, a) ==
    /\ o.export_edited
    /\ HasAdjustments(a)
    /\ o.download_missing \/ OnDisk(w, <<a, "edited">>)

ExportPhotoFits(w, o, a, order) ==
    IF SkipsMissing(w, o, a)
    THEN TRUE
    ELSE /\ DestinationFits(w, OriginalArgs(w, o, a), a, order)
         /\ IF ExportsEditedToo(w, o, a)
            THEN DestinationFits(w, EditedArgs(w, o, a), a, order)
            ELSE TRUE

\* the export command exports one photo into one directory
ExportPhotoCall(assets, opts, depth) ==
    \E a \in assets, o \in opts :
        \E ch \in Choices(Current, o, a) :
            /\ now < depth
            /\ ExportPhotoFits(Current, o, a, ch.order)
            /\ Commit(export_photo([Current EXCEPT !.thru = ch.thru], o, a, ch), o, a)
            /\ now' = now + 1
            /\ UNCHANGED <<meta, nenv, run, prev, dirs>>

\* the image of an asset is edited in the library: new bytes in the same file
SourceChange(assets, depth) ==
    \E a \in assets :
        /\ now < depth
        /\ nenv < MaxEnv
        /\ srcf' = [srcf EXCEPT ![<<a, "orig">>] =
                        RegFile(<<a, "orig", srcf[<<a, "orig">>].data[3] + 1>>, NoPayload, now + 1)]
        /\ now' = now + 1
        /\ nenv' = nenv + 1
        /\ last' = NoCall
        /\ UNCHANGED <<fs, meta, db, info, run, prev, dirs>>

\* the user edits an exported file and saves it
DestModify(depth) ==
    \E p \in Paths :
        /\ now < depth
        /\ nenv < MaxEnv
        /\ Exists(Current, p)
        /\ p.e \in {"heic", "jpg"}
        /\ fs' = [fs EXCEPT ![p] = RegFile(<<"user", "edit", 0>>, NoPayload, now + 1)]
        /\ now' = now + 1
        /\ nenv' = nenv + 1
        /\ last' = NoCall
        /\ UNCHANGED <<srcf, meta, db, info, run, prev, dirs>>

\* the user removes an exported file
DestRemove(depth) ==
    \E p \in Paths :
        /\ now < depth
        /\ nenv < MaxEnv
        /\ Exists(Current, p)
        /\ p.e \in {"heic", "jpg"}
        /\ fs' = [fs EXCEPT ![p] = NoFile]
        /\ now' = now + 1
        /\ nenv' = nenv + 1
        /\ last' = NoCall
        /\ UNCHANGED <<srcf, meta, db, info, run, prev, dirs>>

\* the asset's metadata is edited in Photos: a keyword, a title, a person
MetaChange(assets, depth) ==
    \E a \in assets :
        /\ now < depth
        /\ nenv < MaxEnv
        /\ meta' = [meta EXCEPT ![a] = @ + 1]
        /\ now' = now + 1
        /\ nenv' = nenv + 1
        /\ last' = NoCall
        /\ UNCHANGED <<fs, srcf, db, info, run, prev, dirs>>

\* a file of the library is no longer on this disk: Photos keeps it in the cloud
\* and reports it missing (its path is None from then on), or the file was
\* removed behind Photos' back
SourceLost(srcs, depth) ==
    \E s \in srcs, gone \in {Missing, NoFile} :
        /\ now < depth
        /\ nenv < MaxEnv
        /\ OnDisk(Current, s)
        /\ srcf' = [srcf EXCEPT ![s] = gone]
        /\ now' = now + 1
        /\ nenv' = nenv + 1
        /\ last' = NoCall
        /\ UNCHANGED <<fs, meta, db, info, run, prev, dirs>>

\* ------------------------------------------------------------ option sets
BaseOpts ==
    [update |-> FALSE, use_db |-> TRUE, overwrite |-> FALSE, increment |-> TRUE,
     hardlink |-> FALSE, exiftool |-> FALSE, live |-> FALSE, photos |-> FALSE,
     sidecar_json |-> FALSE, sidecar_xmp |-> FALSE, edited |-> FALSE,
     raw |-> FALSE, named |-> FALSE, extra |-> 0, download_missing |-> FALSE,
     export_edited |-> FALSE]

\* update calls against the database (copies or links, with and without exiftool
\* and the live video), and plain copies made before there was a database
UpdateOpts ==
    {[BaseOpts EXCEPT !.update = TRUE, !.hardlink = h, !.exiftool = x, !.live = l] :
        h \in BOOLEAN, x \in BOOLEAN, l \in BOOLEAN}
    \cup {[BaseOpts EXCEPT !.use_db = FALSE]}

NextUpdate ==
    \/ Export2Call({"A", "B"}, UpdateOpts, MaxClock)
    \/ SourceChange({"A", "B"}, MaxClock)
    \/ DestModify(MaxClock)
    \/ DestRemove(MaxClock)

SpecUpdate == Init /\ [][NextUpdate]_vars

\* ------------------------------------------------------------- properties
Range(seq) == {seq[i] : i \in 1..Len(seq)}

\* the _export_photo calls of the export2 call just made
LastCalls == IF last.kind = "call" THEN Range(last.calls) ELSE {}

\* the primary file's _export_photo calls of the call just made
PrimaryCalls == {c \in LastCalls : c.src = Primary(last.opts, last.uuid)}

\* an update call that returned its results
UpdateReturned == last.kind = "call" /\ last.opts.update /\ last.err = None

\* an update call that took its files from the library and returned its results
UpdateFromLibraryReturned == UpdateReturned /\ ~last.opts.photos

Disjoint(s, t) == Range(s) \cap Range(t) = {}

\* C2 as claimed: in update mode new, updated and skipped are pairwise disjoint
\* and together make up exported, so every skipped path is in exported
C2_PartitionOfExported ==
    UpdateReturned =>
        /\ Disjoint(last.new, last.updated)
        /\ Disjoint(last.new, last.skipped)
        /\ Disjoint(last.updated, last.skipped)
        /\ Range(last.exported) = Range(last.new) \cup Range(last.updated) \cup Range(last.skipped)

\* C2 as amended: in update mode (files taken from the library) new, updated and
\* skipped are pairwise disjoint, new and updated together make up exported, each
\* path once, and no skipped path is in exported
C2_NewAndUpdatedPartitionExported ==
    UpdateFromLibraryReturned =>
        /\ Disjoint(last.new, last.updated)
        /\ Disjoint(last.new, last.skipped)
        /\ Disjoint(last.updated, last.skipped)
        /\ Range(last.exported) = Range(last.new) \cup Range(last.updated)
        /\ Len(last.exported) = Cardinality(Range(last.exported))
        /\ Len(last.exported) = Len(last.new) + Len(last.updated)
        /\ Disjoint(last.skipped, last.exported)

\* an update call that skipped one file and replaced another
C2_Witness ==
    UpdateReturned /\ last.skipped # <<>> /\ last.updated # <<>>

\* the destination holds bytes of an earlier version of the source it is exported from
SourceChangedSince(c) ==
    /\ c.before.kind = "file"
    /\ c.before.data[1] = c.src[1]
    /\ c.before.data[2] = c.src[2]
    /\ c.before.data # c.srcfile.data

\* the destination holds bytes the user saved over the export
DestinationEdited(c) == c.before.kind = "file" /\ c.before.data[1] = "user"

\* the destination was replaced by a copy of, or a link to, the source
Replaced(c) ==
    /\ c.err = None
    /\ c.exported = <<c.dest>>
    /\ IF c.opts.hardlink
       THEN c.after = LinkTo(c.src)
       ELSE c.after.kind = "file" /\ c.after.data = c.srcfile.data

\* C3 as claimed: in update mode a destination the asset owns whose source has
\* changed since, or that was edited after the export, is replaced and reported as
\* exported and updated, with exiftool or without
C3_ChangeIsReexported ==
    \A c \in LastCalls :
        (c.opts.update /\ c.opts.use_db /\ c.existed /\ c.owner = c.uuid
            /\ (SourceChangedSince(c) \/ DestinationEdited(c)))
        => (Replaced(c) /\ c.updated = <<c.dest>> /\ c.skipped = <<>> /\ c.new = <<>>)

\* _export_photo did nothing and reported the path as skipped
ShortCircuited(c) ==
    /\ c.fs_same
    /\ c.db_same
    /\ c.err = None
    /\ c.skipped = <<c.dest>>
    /\ c.updated = <<>>
    /\ c.exported = <<>>
    /\ c.new = <<>>

\* C4 as claimed: in update mode a destination that is the same file as the source
\* is left alone and skipped, in hardlink mode and in copy mode
C4_SameFileIsSkipped ==
    \A c \in LastCalls : (c.opts.update /\ c.existed /\ c.same) => ShortCircuited(c)

\* C4 as amended: with export_as_hardlink, in update mode a destination that is
\* the same file as the source is left alone and skipped, never updated
C4_SameFileIsSkippedWhenLinking ==
    \A c \in LastCalls :
        (c.opts.update /\ c.opts.hardlink /\ c.existed /\ c.same) => ShortCircuited(c)

\* a hard-linked destination is exported again after its source changed
C4_Witness ==
    \E c \in LastCalls :
        c.opts.update /\ c.opts.hardlink /\ c.existed /\ c.same /\ c.srcfile.data[3] > 0

\* the path the caller asked for
Requested == [n |-> 0, e |-> Filename(last.uuid), ed |-> 0]

\* C5 as claimed: in update mode an existing candidate with no uuid in the database
\* that equals the source is adopted: the database gets the uuid, the path is
\* skipped, the file is not rewritten and no further copy is made
C5_UntrackedCopyIsAdopted ==
    (/\ last.kind = "call"
     /\ last.opts.update
     /\ last.opts.use_db
     /\ last.taken
     /\ last.owner = None
     /\ last.identical)
    => (/\ last.err = None
        /\ last.dest = Requested
        /\ db[Requested].uuid = last.uuid
        /\ Requested \in Range(last.skipped)
        /\ Requested \notin Range(last.new) \cup Range(last.updated) \cup Range(last.exported)
        /\ \A c \in LastCalls : c.dest = Requested => c.fs_same)

\* the path was copied or linked anew
Created(c) == Replaced(c) /\ c.new = <<c.dest>> /\ c.updated = <<>> /\ c.skipped = <<>>

\* C10: in update mode a destination that does not exist is copied or linked and
\* reported as exported and new, and no call reports a path as new and updated
C10_MissingDestinationIsNew ==
    \A c \in LastCalls :
        /\ (c.opts.update /\ ~c.existed) => Created(c)
        /\ Disjoint(c.new, c.updated)

\* an update call linked a missing primary file and copied nothing
C10_Witness ==
    \E c \in LastCalls : c.opts.update /\ ~c.existed /\ c.opts.hardlink /\ c.after = LinkTo(c.src)

\* the log is the five setters of path p for asset a, in the order uuid, info,
\* original signature, exif signature reset, exif payload reset
FiveSetters(log, p, a, json, sig) ==
    /\ Len(log) = 5
    /\ log[1].op = "set_uuid_for_file" /\ log[1].key = p /\ log[1].val = a
    /\ log[2].op = "set_info_for_uuid" /\ log[2].key = a /\ log[2].val = json
    /\ log[3].op = "set_stat_orig_for_file" /\ log[3].key = p /\ log[3].val = sig
    /\ log[4].op = "set_stat_exif_for_file" /\ log[4].key = p /\ log[4].val = NullSig
    /\ log[5].op = "set_exifdata_for_file" /\ log[5].key = p /\ log[5].val = NoPayload

\* the database entry of a path just copied, linked or adopted
FreshEntry(a, sig) == [uuid |-> a, orig |-> sig, exif |-> NullSig, exifdata |-> NoPayload]

\* the copy branch that skips an identical file and records its signature again
RefreshedSignature(c) ==
    /\ c.opts.update
    /\ ~c.opts.hardlink
    /\ ~c.opts.exiftool
    /\ c.skipped = <<c.dest>>
    /\ Len(c.log) = 1
    /\ c.log[1].op = "set_stat_orig_for_file" /\ c.log[1].key = c.dest /\ c.log[1].val = c.sig

\* a branch that copied or linked called the five setters in order and left the
\* entry of a fresh file
CopiedInOrder(c) ==
    c.exported # <<>>
    => (/\ FiveSetters(c.log, c.dest, c.uuid, c.json, c.sig)
        /\ c.opts.use_db => (c.entry = FreshEntry(c.uuid, c.sig) /\ c.info = c.json))

\* an adoption made before the first _export_photo call called the five setters
\* in order and left the entry of a fresh file
AdoptedInOrder(c) ==
    (c.log_before # <<>>)
    => (/\ FiveSetters(c.log_before, c.dest, c.uuid, c.json, c.sig_before)
        /\ c.opts.use_db => c.entry_before = FreshEntry(c.uuid, c.sig_before))

\* the first _export_photo call of the call just made
FirstCalls == IF last.kind = "call" /\ last.calls # <<>> THEN {last.calls[1]} ELSE {}

\* C11 as claimed: every branch that copies, links or adopts calls the five
\* setters in the order uuid, info, original signature, exif signature reset, exif
\* payload reset and leaves uuid = the asset, orig = the signature of the file,
\* exif signature and payload empty; no branch calls a later setter without the
\* earlier ones
C11_SettersAlwaysInOrder ==
    /\ \A c \in LastCalls : CopiedInOrder(c) /\ (c.exported = <<>> => c.log = <<>>)
    /\ \A c \in FirstCalls : AdoptedInOrder(c)

\* C11 as amended: every branch that copies, links or adopts calls the five
\* setters in that order and leaves that entry; the branches that change nothing
\* call no setter, except the copy branch that skips an identical file (update,
\* no exiftool), which calls set_stat_orig_for_file alone
C11_SettersInOrderOrSignatureOnly ==
    /\ \A c \in LastCalls :
          /\ CopiedInOrder(c)
          /\ c.exported = <<>> => (c.log = <<>> \/ RefreshedSignature(c))
          /\ RefreshedSignature(c) => c.entry = [c.entry_before EXCEPT !.orig = c.sig]
    /\ \A c \in FirstCalls : AdoptedInOrder(c)

\* an update call adopted a file exported before there was a database, then
\* skipped it and recorded its signature again
C11_Witness ==
    \E c \in FirstCalls :
        /\ c.opts.use_db
        /\ c.log_before # <<>>
        /\ RefreshedSignature(c)
        /\ c.entry = FreshEntry(c.uuid, c.sig)

\* ------------------------------------------- exports without update
\* plain exports: copies and links with the live video, copies without it, exports
\* by Photos, exports with sidecars, and the edited version of a photo that has none
PlainOpts ==
    {[BaseOpts EXCEPT !.overwrite = ov, !.increment = inc, !.hardlink = h, !.live = TRUE] :
        ov \in BOOLEAN, inc \in BOOLEAN, h \in BOOLEAN}
    \cup {[BaseOpts EXCEPT !.overwrite = ov, !.increment = inc] :
        ov \in BOOLEAN, inc \in BOOLEAN}
    \cup {[BaseOpts EXCEPT !.increment = inc, !.photos = TRUE] : inc \in BOOLEAN}
    \cup {[BaseOpts EXCEPT !.increment = inc, !.sidecar_json = TRUE, !.sidecar_xmp = TRUE] :
        inc \in BOOLEAN}
    \cup {[BaseOpts EXCEPT !.increment = FALSE, !.edited = TRUE]}

NextPlain ==
    \/ Export2Call({"A", "B"}, PlainOpts, MaxClock)
    \/ DestRemove(MaxClock)

SpecPlain == Init /\ [][NextPlain]_vars

\* the call got past the checks of its arguments
ArgumentsValid == last.kind = "call" /\ ~(last.opts.edited /\ ~HasAdjustments(last.uuid))

\* C6: without update, with increment and without overwrite, the destination keeps
\* the requested extension and takes the requested stem if no entry of the
\* directory has it (under any extension), otherwise "stem (n)" for the smallest
\* n >= 1 that no entry has; the primary file is written there, to a free path
C6_StemBasedIncrement ==
    (/\ ArgumentsValid
     /\ ~last.opts.update
     /\ last.opts.increment
     /\ ~last.opts.overwrite)
    => (/\ last.dest.e = Filename(last.uuid)
        /\ last.dest.n \notin last.stems
        /\ \A m \in 0..(last.dest.n - 1) : m \in last.stems
        /\ \A i \in 1..Len(last.calls) :
              last.calls[i].src = <<last.uuid, "orig">>
              => last.calls[i].dest = last.dest /\ ~last.calls[i].existed)

\* photo.heic is there, photo.jpg is not, and the jpg goes to "photo (1).jpg"
C6_Witness ==
    /\ last.kind = "call"
    /\ last.uuid = "B"
    /\ ~last.opts.update /\ last.opts.increment /\ ~last.opts.overwrite
    /\ ~last.taken
    /\ last.stems = {0}
    /\ last.dest = [n |-> 1, e |-> "jpg", ed |-> 0]
    /\ Exists(Current, [n |-> 0, e |-> "heic", ed |-> 0])
    /\ Exists(Current, [n |-> 1, e |-> "jpg", ed |-> 0])
    /\ ~Exists(Current, [n |-> 0, e |-> "jpg", ed |-> 0])

C9_PlainExportAlwaysExports ==
    \A c \in LastCalls :
        ~c.opts.update
        => (Replaced(c) /\ c.new = <<>> /\ c.updated = <<>> /\ c.skipped = <<>>)

\* the link was refused and nothing was changed
LinkRefused(c) ==
    /\ c.err = "FileExistsError"
    /\ c.fs_same
    /\ c.db_same
    /\ c.exported = <<>>

\* C9 as amended: without update new, updated and skipped are always empty; when
\* the destination is free or overwrite is set the source is copied or linked
\* there and the path returned in exported; an existing destination without
\* overwrite is not removed: the copy is then written over it and the path
\* returned in exported, the link fails with FileExistsError and changes nothing
C9_PlainExportUnlessLinkRefused ==
    \A c \in LastCalls :
        ~c.opts.update
        => (/\ c.new = <<>> /\ c.updated = <<>> /\ c.skipped = <<>>
            /\ (~c.existed \/ c.opts.overwrite) => Replaced(c)
            /\ (c.existed /\ ~c.opts.overwrite /\ c.opts.hardlink) => LinkRefused(c)
            /\ (c.existed /\ ~c.opts.overwrite /\ ~c.opts.hardlink)
                  => (c.err = None /\ c.exported = <<c.dest>>))

\* the live video of one photo meets the live video of another: a link refused,
\* after the photo itself was linked
C9_Witness ==
    /\ \E c \in LastCalls : ~c.opts.update /\ c.opts.hardlink /\ c.existed /\ LinkRefused(c)
    /\ \E c \in LastCalls : ~c.opts.update /\ c.opts.hardlink /\ ~c.existed /\ Replaced(c)

\* ------------------------------------------------ exports without a database
\* calls that pass no export_db: plain and update, copies and links, with and
\* without exiftool, and a plain copy that overwrites
NoLedgerOpts ==
    {[BaseOpts EXCEPT !.use_db = FALSE, !.update = u, !.hardlink = h, !.exiftool = x] :
        u \in BOOLEAN, h \in BOOLEAN, x \in BOOLEAN}
    \cup {[BaseOpts EXCEPT !.use_db = FALSE, !.overwrite = TRUE]}

NextNoLedger ==
    \/ Export2Call({"B", "C"}, NoLedgerOpts, MaxClock)
    \/ SourceChange({"B", "C"}, MaxClock)
    \/ DestModify(MaxClock)
    \/ DestRemove(MaxClock)

SpecNoLedger == Init /\ [][NextNoLedger]_vars

\* a call that was given no export_db and took its files from the library
NoLedgerCall == last.kind = "call" /\ ~last.opts.use_db /\ ~last.opts.photos

\* C12 as claimed: without a database every file is new to the call, whatever
\* the flags: no destination that is already there is taken for the asset's own,
\* adopted or skipped, and every file is copied or linked
C12_NoLedgerEveryFileIsNew ==
    NoLedgerCall
    => \A c \in LastCalls : c.skipped = <<>> /\ (c.err = None => c.exported = <<c.dest>>)

\* C12 as amended: without a database nothing is recorded. Without update no
\* file is skipped: every file is copied or linked, unless the link is refused.
\* With update the files of the directory stand in for the database: a
\* candidate that filecmp.cmp finds equal to the source is taken for the asset's
\* own, and a destination that exists is never one that differs from the source
\* (the file then goes to a sibling that is equal or to a fresh path). Such a
\* destination is skipped by a link when it is the source file itself and by a
\* copy without exiftool when it is another file, and is replaced and reported
\* as updated otherwise
C12_NoLedgerFilesStandIn ==
    NoLedgerCall
    => (/\ last.db_same
        /\ ~last.opts.update
           => \A c \in LastCalls : c.skipped = <<>> /\ (c.err = None => c.exported = <<c.dest>>)
        /\ last.opts.update
           => (/\ last.equal => last.dest = last.cand
               /\ \A c \in PrimaryCalls :
                     /\ c.existed => c.equal
                     /\ (c.existed /\ c.opts.hardlink /\ c.same) => ShortCircuited(c)
                     /\ (c.existed /\ ~c.opts.hardlink /\ ~c.opts.exiftool /\ ~c.same)
                          => ShortCircuited(c)
                     /\ (c.existed /\ c.opts.hardlink /\ ~c.same)
                          => (Replaced(c) /\ c.updated = <<c.dest>>)
                     /\ (c.existed /\ ~c.opts.hardlink /\ (c.opts.exiftool \/ c.same))
                          => (Replaced(c) /\ c.updated = <<c.dest>>)
                     /\ ~c.existed => Created(c)))

\* an update call without a database skipped a file that was already there
C12_Witness ==
    /\ NoLedgerCall
    /\ last.opts.update
    /\ last.taken
    /\ last.equal
    /\ last.skipped = <<last.cand>>
    /\ last.fs_same

\* ------------------------------------------------ metadata written by exiftool
\* exports with exiftool, plain and update, copies and links, with and without
\* the live video, and an update without a database
ExifOpts ==
    {[BaseOpts EXCEPT !.exiftool = TRUE, !.update = u, !.hardlink = h, !.live = l] :
        u \in BOOLEAN, h \in BOOLEAN, l \in BOOLEAN}
    \cup {[BaseOpts EXCEPT !.exiftool = TRUE, !.update = TRUE, !.use_db = FALSE]}

NextExif ==
    \/ Export2Call({"A"}, ExifOpts, MaxClock)
    \/ MetaChange({"A"}, MaxClock)
    \/ SourceChange({"A"}, MaxClock)
    \/ DestModify(MaxClock)

SpecExif == Init /\ [][NextExif]_vars

\* an update call with exiftool that took its files from the library and returned
ExifUpdateReturned ==
    /\ last.kind = "call"
    /\ last.opts.update
    /\ last.opts.exiftool
    /\ ~last.opts.photos
    /\ last.err = None

\* the payload _exiftool_json_sidecar computes for the asset of the call
PayloadNow == <<last.uuid, meta[last.uuid]>>

\* the event at position i of the call's log is the call op on path f
IsEvent(i, op, f) ==
    i \in 1..Len(last.log) /\ last.log[i].op = op /\ last.log[i].key = f

\* exiftool left path f alone after the payload was read at position i: no
\* further call on f, the file and its database entry as the call found them
ExifLeftAlone(i, f) ==
    /\ f \notin Range(last.exif_updated)
    /\ \A j \in (i + 1)..Len(last.log) : last.log[j].key # f
    /\ \A c \in LastCalls : c.dest = f => (db[f] = c.entry_before /\ fs[f] = c.before)

\* exiftool wrote path f after the payload was read at position i, and the
\* payload and the signature of the written file were recorded
ExifRewritten(i, f) ==
    /\ f \in Range(last.exif_updated)
    /\ IsEvent(i + 1, "_write_exif_data", f) /\ last.log[i + 1].val = PayloadNow
    /\ IsEvent(i + 2, "set_exifdata_for_file", f) /\ last.log[i + 2].val = PayloadNow
    /\ IsEvent(i + 3, "set_stat_exif_for_file", f)
    /\ last.log[i + 3].val = file_sig(Current, f)
    /\ Inode(Current, f).exif = PayloadNow
    /\ last.opts.use_db => (db[f].exifdata = PayloadNow /\ db[f].exif = file_sig(Current, f))

\* C13: in update mode with exiftool, for every path of new + updated + skipped
\* the stored payload is read once; if it is there and equals the payload computed
\* now, nothing is written and the file and its entry stay as they were; otherwise
\* exiftool writes the file, the path is in exif_updated and the database gets
\* the new payload and the signature of the written file
C13_ExifWrittenUnlessPayloadEqual ==
    ExifUpdateReturned
    => \A f \in Range(last.new \o last.updated \o last.skipped) :
          \E i \in 1..Len(last.log) :
              /\ IsEvent(i, "get_exifdata_for_file", f)
              /\ \A j \in 1..Len(last.log) : IsEvent(j, "get_exifdata_for_file", f) => j = i
              /\ IF last.log[i].val # NoPayload /\ last.log[i].val = PayloadNow
                 THEN ExifLeftAlone(i, f)
                 ELSE ExifRewritten(i, f)

\* an update call skipped the photo, whose recorded payload is the current one,
\* and wrote the metadata into the live video it exported for the first time
C13_Witness ==
    /\ ExifUpdateReturned
    /\ last.opts.use_db
    /\ Len(last.skipped) = 1
    /\ Len(last.new) = 1
    /\ last.exif_updated = last.new
    /\ db[last.skipped[1]].exifdata = PayloadNow

\* an update call skipped a file whose recorded payload is an older one, and
\* exiftool wrote it again
C13_WitnessChanged ==
    /\ ExifUpdateReturned
    /\ last.opts.use_db
    /\ last.skipped # <<>>
    /\ last.exif_updated = last.skipped
    /\ \E i \in 1..Len(last.log) :
          /\ IsEvent(i, "get_exifdata_for_file", last.skipped[1])
          /\ last.log[i].val \notin {NoPayload, PayloadNow}

\* --------------------------------------------------- the edited version
\* calls for the original and for the edited version, from the library or by
\* Photos, with a filename passed or not, with the increment or without
EditedOpts ==
    {[BaseOpts EXCEPT !.edited = e, !.photos = ph, !.named = nm, !.increment = inc] :
        e \in BOOLEAN, ph \in BOOLEAN, nm \in BOOLEAN, inc \in BOOLEAN}

NextEdited ==
    \/ Export2Call({"B", "C"}, EditedOpts, MaxClock)
    \/ SourceLost({<<"C", "edited">>}, MaxClock)
    \/ DestRemove(MaxClock)

SpecEdited == Init /\ [][NextEdited]_vars

\* C14: a call for the edited version of an asset without adjustments raises
\* ValueError before anything else: no destination check, no file, no sidecar,
\* no call to the database; the directory and the database are as they were
C14_EditedWithoutAdjustmentsRaises ==
    (last.kind = "call" /\ last.opts.edited /\ ~HasAdjustments(last.uuid))
    => (/\ last.err = "ValueError"
        /\ last.fs_same
        /\ last.db_same
        /\ last.calls = <<>>
        /\ last.log = <<>>
        /\ last.exported = <<>>)

\* the call met a file at its destination and was told not to increment: the
\* ValueError came before the FileExistsError
C14_Witness ==
    /\ last.kind = "call"
    /\ last.opts.edited
    /\ ~HasAdjustments(last.uuid)
    /\ last.taken
    /\ ~last.opts.increment
    /\ last.err = "ValueError"

\* the edited version of an edited asset was asked for and no filename passed
EditedUnnamed ==
    /\ last.kind = "call"
    /\ last.opts.edited
    /\ ~last.opts.named
    /\ HasAdjustments(last.uuid)

\* path_edited is a file of the library
EditedResolved == OnDisk(Current, <<last.uuid, "edited">>)

\* C19 as claimed: without a filename the edited version is named by the stem of
\* the asset's filename and "_edited", with the extension of the edited file, or
\* .jpeg when path_edited cannot be resolved
C19_EditedNameOrDefault ==
    EditedUnnamed
    => (/\ last.dest.ed >= 1
        /\ last.dest.e = (IF EditedResolved THEN EditedSuffix ELSE "jpeg"))

\* C19 as amended: taken from the library, the edited version is named
\* "<stem>_edited" with the extension of the edited file, incremented to
\* "<stem>_edited (n)" when asked to, and when path_edited cannot be resolved the
\* call raises FileNotFoundError before it names a destination, whatever is in the
\* directory; exported by Photos, it is named "<stem>_edited.jpeg", the stem
\* being the one left by the increment ("photo (n)_edited.jpeg"), whether
\* path_edited resolves or not, unless the name of the original is taken and
\* the increment is off (FileExistsError)
C19_EditedNameOrError ==
    EditedUnnamed
    => (/\ (~last.opts.photos /\ EditedResolved)
           => (/\ last.dest.ed = 1
               /\ last.dest.e = EditedSuffix
               /\ last.err = None => last.exported = <<last.dest>>)
        /\ (~last.opts.photos /\ ~EditedResolved)
           => (/\ last.err = "FileNotFoundError"
               /\ last.dest = NoDestination
               /\ last.fs_same
               /\ last.calls = <<>>)
        /\ last.opts.photos
           => (/\ last.err \in {None, "FileExistsError"}
               /\ last.err = None
                  => (/\ last.dest.e = "jpeg"
                      /\ last.dest.ed = (IF last.dest.n = 0 THEN 1 ELSE 2))))

\* the edited version was copied from the library to "photo_edited (1).jpeg"
C19_Witness ==
    /\ EditedUnnamed
    /\ ~last.opts.photos
    /\ last.err = None
    /\ last.dest = [n |-> 1, e |-> EditedSuffix, ed |-> 1]
    /\ last.exported = <<last.dest>>

\* path_edited was None, the destination was taken and the increment was off:
\* FileNotFoundError, not FileExistsError
C19_WitnessUnresolved ==
    /\ EditedUnnamed
    /\ ~last.opts.photos
    /\ ~last.opts.increment
    /\ ~EditedResolved
    /\ Exists(Current, [n |-> 0, e |-> "jpeg", ed |-> 1])
    /\ last.err = "FileNotFoundError"

\* ------------------------------------------------- photos that are not there
\* export_photo with and without --export-edited, --download-missing, --update
MissingOpts ==
    {[BaseOpts EXCEPT !.export_edited = e, !.download_missing = dm, !.update = u] :
        e \in BOOLEAN, dm \in BOOLEAN, u \in BOOLEAN}

NextMissing ==
    \/ ExportPhotoCall({"B", "C"}, MissingOpts, MaxClock)
    \/ SourceLost({<<"B", "orig">>, <<"C", "orig">>, <<"C", "edited">>}, MaxClock)
    \/ DestRemove(MaxClock)

SpecMissing == Init /\ [][NextMissing]_vars

\* an export_photo call without --download-missing
ExportWithoutDownload == last.kind = "call" /\ ~last.opts.download_missing

\* the call did nothing and returned empty results
NothingDone ==
    /\ last.err = None
    /\ last.exported = <<>>
    /\ last.new = <<>>
    /\ last.updated = <<>>
    /\ last.skipped = <<>>
    /\ last.exif_updated = <<>>
    /\ last.calls = <<>>
    /\ last.log = <<>>
    /\ last.fs_same
    /\ last.db_same

\* the edited version was asked for and its file is not on disk
EditedNotThere ==
    /\ last.opts.export_edited
    /\ HasAdjustments(last.uuid)
    /\ ~OnDisk(Current, <<last.uuid, "edited">>)

\* the paths the call reported
Reported ==
    Range(last.exported) \cup Range(last.new) \cup Range(last.updated) \cup Range(last.skipped)

\* C15: without --download-missing export_photo raises nothing for a photo that
\* is flagged missing or whose file is not on disk: it copies nothing, calls no
\* database function and returns empty results; and when only the file of the
\* edited version is not there it exports the original alone, with no file, no
\* database call and no result for the edited version
C15_MissingSourceIsSkipped ==
    ExportWithoutDownload
    => (/\ ~OnDisk(Current, <<last.uuid, "orig">>) => NothingDone
        /\ (OnDisk(Current, <<last.uuid, "orig">>) /\ EditedNotThere)
           => (/\ last.err = None
               /\ \A c \in LastCalls : c.src = <<last.uuid, "orig">> /\ c.dest.ed = 0
               /\ \A p \in Reported : p.ed = 0
               /\ \A i \in 1..Len(last.log) :
                     last.log[i].op = "set_info_for_uuid" \/ last.log[i].key.ed = 0))

\* the file of the original was removed behind Photos' back (ismissing is not
\* set) and the directory holds an earlier export: the call passed it over
C15_Witness ==
    /\ ExportWithoutDownload
    /\ srcf[<<last.uuid, "orig">>] = NoFile
    /\ db[[n |-> 0, e |-> "jpg", ed |-> 0]].uuid = last.uuid
    /\ NothingDone

\* the original was exported and the edited version, not on disk, passed over
C15_WitnessEdited ==
    /\ ExportWithoutDownload
    /\ EditedNotThere
    /\ last.exported # <<>>
    /\ Exists(Current, [n |-> 0, e |-> "jpeg", ed |-> 1])

\* an export_photo call with --download-missing
ExportWithDownload == last.kind = "call" /\ last.opts.download_missing

\* C29: with --download-missing export_photo returns the empty "skipping
\* missing" result only for a photo that is missing and cannot be fetched (not
\* an iCloud asset, or not in the cloud); a photo that is not missing and whose
\* file is on disk is exported, whatever iscloudasset and incloud say
C29_OnlyUnfetchableMissingIsSkipped ==
    ExportWithDownload
    => (/\ NothingDone
           => (/\ IsMissing(Current, last.uuid)
               /\ ~IsCloudAsset(last.uuid) \/ ~InCloud(last.uuid))
        /\ (~IsMissing(Current, last.uuid) /\ OnDisk(Current, <<last.uuid, "orig">>))
           => (last.err = None /\ Reported # {}))

\* ------------------------------------------------------ sidecars and Photos
\* exports with a JSON or an XMP sidecar or both: from the library, plain or
\* update, and by Photos
SidecarOpts ==
    {[BaseOpts EXCEPT !.sidecar_json = j, !.sidecar_xmp = ~j \/ x, !.photos = ph,
                      !.update = ~ph /\ u] :
        j \in BOOLEAN, x \in BOOLEAN, ph \in BOOLEAN, u \in BOOLEAN}

NextSidecar ==
    \/ Export2Call({"B"}, SidecarOpts, MaxClock)
    \/ Export2SidecarFails({"B"}, SidecarOpts, MaxClock)
    \/ DestRemove(MaxClock)

SpecSidecar == Init /\ [][NextSidecar]_vars

\* the call logged the warning "what" about its destination
LoggedWarning(what) ==
    \E i \in 1..Len(last.log) :
        /\ last.log[i].op = "logging.warning"
        /\ last.log[i].key = last.dest
        /\ last.log[i].val = what

\* the path of the sidecar of the call just made
SidecarPath(ext) == [last.dest EXCEPT !.e = ext]

\* the sidecar of the call's asset is in the directory, written by this call
SidecarWritten(ext) ==
    /\ SidecarPath(ext) \in Paths
    /\ fs[SidecarPath(ext)] = RegFile(<<last.uuid, ext, meta[last.uuid]>>, NoPayload, now)

\* the sidecars the call was asked for are written
SidecarsWritten ==
    /\ last.opts.sidecar_json => SidecarWritten("json")
    /\ last.opts.sidecar_xmp => SidecarWritten("xmp")

\* an export2 call that went to Photos for its file
PhotosCall == last.kind = "call" /\ last.opts.photos

\* path p holds the file Photos wrote during the call just made
FetchedNow(p) == fs[p] = RegFile(<<last.uuid, "cloud", 0>>, NoPayload, now)

\* C16: when Photos hands over nothing, export2 logs a warning and does not
\* raise: nothing is added to exported, the sidecars are written and the result
\* is returned; when Photos hands over a file, its path is in exported
C16_FetchFailureIsWarning ==
    PhotosCall
    => (/\ last.err \in {None, "OSError"}
        /\ last.err = "OSError" => (LoggedWarning("json") \/ LoggedWarning("xmp"))
        /\ (last.err = None /\ LoggedWarning("use_photos_export"))
           => (/\ last.exported = <<>>
               /\ ~FetchedNow(PhotosFile(last.opts, last.uuid, last.dest))
               /\ SidecarsWritten)
        /\ (last.err = None /\ ~LoggedWarning("use_photos_export"))
           => (/\ last.exported = <<PhotosFile(last.opts, last.uuid, last.dest)>>
               /\ FetchedNow(PhotosFile(last.opts, last.uuid, last.dest))
               /\ SidecarsWritten))

\* Photos handed over nothing, and the call wrote its JSON sidecar and returned
C16_Witness ==
    /\ PhotosCall
    /\ LoggedWarning("use_photos_export")
    /\ last.err = None
    /\ last.opts.sidecar_json
    /\ SidecarWritten("json")
    /\ last.exported = <<>>

\* an export2 call that took its file from the library and was asked for a sidecar
SidecarCall ==
    /\ last.kind = "call"
    /\ ~last.opts.photos
    /\ last.opts.sidecar_json \/ last.opts.sidecar_xmp

\* C17: a sidecar that cannot be written is logged and its exception leaves
\* export2: no result is returned, the files copied by the call and their
\* database entries stay as the call made them, a JSON sidecar written before
\* the XMP failed stays, and no XMP is written after the JSON failed
C17_SidecarFailurePropagates ==
    (last.kind = "call" /\ (LoggedWarning("json") \/ LoggedWarning("xmp")))
    => (/\ last.err = "OSError"
        /\ Reported = {}
        /\ last.exif_updated = <<>>
        /\ \A c \in LastCalls :
              c.err = None => (fs[c.dest] = c.after /\ db[c.dest] = c.entry)
        /\ (LoggedWarning("xmp") /\ last.opts.sidecar_json) => SidecarWritten("json")
        /\ LoggedWarning("json") => (~SidecarWritten("json") /\ ~SidecarWritten("xmp"))
        /\ LoggedWarning("xmp") => ~SidecarWritten("xmp"))

\* the photo was copied and recorded, then the XMP sidecar could not be written
C17_Witness ==
    /\ SidecarCall
    /\ LoggedWarning("xmp")
    /\ last.err = "OSError"
    /\ \E c \in LastCalls : c.exported = <<c.dest>> /\ Exists(Current, c.dest)
                                /\ db[c.dest].uuid = last.uuid

\* C20: a call that returns writes each sidecar it was asked for next to its
\* file, named by the stem of the final destination (after the increment or the
\* search among the siblings), and every path the call reports has that stem
C20_SidecarSharesStem ==
    (last.kind = "call" /\ last.err = None
        /\ (last.opts.sidecar_json \/ last.opts.sidecar_xmp))
    => (/\ SidecarsWritten
        /\ \A p \in Reported : p.n = last.dest.n /\ p.ed = last.dest.ed
        /\ \A c \in LastCalls : c.dest.n = last.dest.n /\ c.dest.ed = last.dest.ed)

\* the photo went to "photo (1)", and so did its sidecar
C20_Witness ==
    /\ SidecarCall
    /\ last.err = None
    /\ last.dest.n = 1
    /\ last.opts.sidecar_xmp
    /\ SidecarWritten("xmp")
    /\ last.exported = <<last.dest>>
    /\ ~Exists(Current, [n |-> 0, e |-> "xmp", ed |-> 0])

\* -------------------------------------------- the live video and the RAW image
\* exports with and without the live video and the RAW image, plain and update
CompanionOpts ==
    {[BaseOpts EXCEPT !.live = l, !.raw = r, !.update = u] :
        l \in BOOLEAN, r \in BOOLEAN, u \in BOOLEAN}

NextCompanion ==
    \/ Export2Call({"B", "C"}, CompanionOpts, MaxClock)
    \/ SourceLost({<<"B", "live">>, <<"C", "raw">>}, MaxClock)
    \/ DestRemove(MaxClock)

SpecCompanion == Init /\ [][NextCompanion]_vars

\* the _export_photo calls of the call just made that copied source kind k
CallsOf(k) == {c \in LastCalls : c.src = <<last.uuid, k>>}

\* C18: the live video goes to the stem of the photo's final destination with
\* the suffix .mov, the RAW image to the same stem with the suffix of the RAW
\* file, each at most once and only when it is asked for and the asset has it;
\* and each is exported when it is asked for and its file is there
C18_CompanionsShareStem ==
    (last.kind = "call" /\ ~last.opts.photos)
    => (/\ \A c \in CallsOf("orig") : c.dest = last.dest
        /\ \A c \in CallsOf("live") :
              /\ c.dest = [last.dest EXCEPT !.e = "mov"]
              /\ last.opts.live
              /\ LivePhoto(last.uuid)
        /\ \A c \in CallsOf("raw") :
              /\ c.dest = [last.dest EXCEPT !.e = RawSuffix]
              /\ last.opts.raw
              /\ HasRaw(last.uuid)
        /\ \A c \in LastCalls : c.src[1] = last.uuid /\ c.src[2] \in {"orig", "live", "raw"}
        /\ Len(last.calls) = Cardinality(LastCalls)
        /\ \A k \in {"orig", "live", "raw"} : Cardinality(CallsOf(k)) <= 1
        /\ Reported \subseteq {c.dest : c \in LastCalls}
        /\ (last.err = None /\ last.opts.live /\ OnDisk(Current, <<last.uuid, "live">>))
           => CallsOf("live") # {}
        /\ (last.err = None /\ last.opts.raw /\ OnDisk(Current, <<last.uuid, "raw">>))
           => CallsOf("raw") # {})

\* the photo went to "photo (1).jpg" and its RAW image to "photo (1).dng"
C18_Witness ==
    /\ last.kind = "call"
    /\ last.err = None
    /\ last.dest.n = 1
    /\ \E c \in CallsOf("raw") :
          c.dest = [n |-> 1, e |-> RawSuffix, ed |-> 0] /\ c.exported = <<c.dest>>
    /\ ~Exists(Current, [n |-> 0, e |-> RawSuffix, ed |-> 0])

\* an update call found the photo at "photo (1).jpg" and put the live video at
\* "photo (1).mov"
C18_WitnessLive ==
    /\ last.kind = "call"
    /\ last.opts.update
    /\ last.err = None
    /\ last.dest.n = 1
    /\ \E c \in CallsOf("live") : c.dest = [n |-> 1, e |-> "mov", ed |-> 0]

\* a companion the call was asked for and the asset has, whose file is not there
CompanionAbsent(k) ==
    /\ IF k = "live" THEN last.opts.live /\ LivePhoto(last.uuid)
                     ELSE last.opts.raw /\ HasRaw(last.uuid)
    /\ ~OnDisk(Current, <<last.uuid, k>>)

\* a companion the call was asked for and the asset has, whose file is there
CompanionThere(k) ==
    /\ IF k = "live" THEN last.opts.live /\ LivePhoto(last.uuid)
                     ELSE last.opts.raw /\ HasRaw(last.uuid)
    /\ OnDisk(Current, <<last.uuid, k>>)

\* C28 as claimed: when the live video or the RAW image is asked for and its path
\* is absent, export2 passes it over without raising and returns the results of
\* the primary file and of the other companion
C28_AbsentCompanionIsPassedOver ==
    (/\ last.kind = "call"
     /\ ~last.opts.photos
     /\ OnDisk(Current, <<last.uuid, "orig">>)
     /\ CompanionAbsent("live") \/ CompanionAbsent("raw"))
    => (/\ last.err = None
        /\ last.dest \in Reported
        /\ \A k \in {"live", "raw"} :
              /\ CompanionAbsent(k) => CallsOf(k) = {}
              /\ CompanionThere(k) => \E c \in CallsOf(k) : c.dest \in Reported)

\* ------------------------------------------------ the positional arguments
\* calls that pass one, two or three filenames after the destination, or none,
\* for the original and for the edited version, with the increment or without
ArgumentOpts ==
    {[BaseOpts EXCEPT !.named = TRUE, !.extra = x, !.edited = e, !.increment = inc] :
        x \in 0..MaxExtra, e \in BOOLEAN, inc \in BOOLEAN}
    \cup {[BaseOpts EXCEPT !.increment = inc] : inc \in BOOLEAN}

NextArguments ==
    \/ Export2Call({"B", "C"}, ArgumentOpts, MaxClock)
    \/ DestRemove(MaxClock)

SpecArguments == Init /\ [][NextArguments]_vars

\* C26 as claimed: a call that passes more than one filename after the destination
\* raises TypeError before any file operation and is never exported under the
\* default filename
C26_MoreThanOneFilenameRaises ==
    (ArgumentsValid /\ last.opts.named /\ last.opts.extra > 0)
    => (/\ last.err = "TypeError"
        /\ last.fs_same
        /\ last.db_same
        /\ last.calls = <<>>
        /\ last.exported = <<>>)

\* ------------------------------------- two assets that ask for the same name
\* update runs, plain exports recorded in the database, and exports made
\* before there was a database
ReclaimOpts ==
    {[BaseOpts EXCEPT !.update = TRUE], BaseOpts, [BaseOpts EXCEPT !.use_db = FALSE]}

NextReclaim ==
    \/ Export2Call({"B", "C"}, ReclaimOpts, MaxClock + 1)
    \/ SourceChange({"B", "C"}, MaxClock + 1)
    \/ DestModify(MaxClock + 1)
    \/ DestRemove(MaxClock + 1)

SpecReclaim == Init /\ [][NextReclaim]_vars

\* an update call whose candidate exists and is another asset's, or is untracked
\* and does not hold the bytes of the source
CandidateNotOurs ==
    /\ ArgumentsValid
    /\ last.opts.update
    /\ last.opts.use_db
    /\ ~last.opts.photos
    /\ last.taken
    /\ \/ last.owner \notin {None, last.uuid}
       \/ last.owner = None /\ ~last.identical

\* C8: in update mode, when the candidate exists and is not this asset's, the
\* destination is a sibling "stem (n).ext" that the asset owns or that is untracked
\* and byte-identical to the source (the database then names the asset as its
\* owner); if there is no such sibling it is the fresh path of the increment
\* algorithm; the primary file is never written to a path that the database gave
\* to another asset
C8_ReclaimOrMint ==
    CandidateNotOurs
    => (/\ IF last.matches # {}
           THEN last.dest \in last.matches /\ db[last.dest].uuid = last.uuid
           ELSE /\ last.dest.e = Filename(last.uuid)
                /\ last.dest.n \notin last.stems
                /\ \A m \in 0..(last.dest.n - 1) : m \in last.stems
        /\ \A c \in PrimaryCalls :
              /\ c.dest = last.dest
              /\ c.exported # <<>> => last.owners[c.dest] \in {None, last.uuid})

\* C27: no step deletes an entry of the database: a path that has a uuid in the
\* database has one after every export2 call, whatever its flags and its asset,
\* and after every change made to the files; the calls only create entries or
\* write over them
C27_EntriesAreNeverDeleted ==
    [][\A p \in Paths : db[p].uuid # None => db'[p].uuid # None]_vars

\* the file of a path was removed, and an export2 call made since for another
\* asset, which went to another path, has left the path's entry where it was
C27_Witness ==
    /\ last.kind = "call"
    /\ last.err = None
    /\ last.calls # <<>>
    /\ \E p \in Paths :
          /\ ~Exists(Current, p)
          /\ db[p].uuid \notin {None, last.uuid}
          /\ p # last.dest

\* ------------------------------------------------- which files get EXIF
\* an export2 call with exiftool that returned its results
ExiftoolReturned == last.kind = "call" /\ last.opts.exiftool /\ last.err = None

\* C33: with exiftool, a plain call embeds the metadata in exactly the files it
\* exported; an update call embeds it in every new and every updated file, and
\* in nothing but new, updated and skipped files; and after the call the ledger
\* holds, for every path of exif_updated, the payload of the JSON sidecar as it
\* is now and the signature the file has now
C33_FreshCopiesGetExif ==
    ExiftoolReturned
    => (/\ ~last.opts.update => last.exif_updated = last.exported
        /\ last.opts.update
           => (/\ Range(last.new) \cup Range(last.updated) \subseteq Range(last.exif_updated)
               /\ Range(last.exif_updated)
                  \subseteq Range(last.new) \cup Range(last.updated) \cup Range(last.skipped))
        /\ last.opts.use_db
           => \A p \in Range(last.exif_updated) :
                 /\ db[p].exifdata = ExifPayload(Current, last.uuid)
                 /\ db[p].exif = file_sig(Current, p))

\* an update call with a ledger replaced a file and wrote the metadata into it
C33_Witness ==
    /\ ExiftoolReturned
    /\ last.opts.update
    /\ last.opts.use_db
    /\ last.updated # <<>>
    /\ Range(last.updated) \subseteq Range(last.exif_updated)

\* an update call with a ledger left a file in place and wrote the metadata,
\* which had changed, into it
C33_WitnessSkipped ==
    /\ ExiftoolReturned
    /\ last.opts.update
    /\ last.opts.use_db
    /\ last.new = <<>>
    /\ last.updated = <<>>
    /\ last.skipped # <<>>
    /\ last.exif_updated = last.skipped

\* a plain call exported the photo and its live video and wrote the metadata
\* into both
C33_WitnessPlain ==
    /\ ExiftoolReturned
    /\ ~last.opts.update
    /\ Len(last.exported) = 2
    /\ last.exif_updated = last.exported

\* C34: no export2 call, whatever its update, overwrite, export_as_hardlink and
\* exiftool flags, modifies, replaces or removes a file of the library
C34_SourceFilesAreReadOnly ==
    [][last'.kind = "call" => srcf' = srcf]_vars

\* ------------------------------------------- sidecars of the same stem
\* exports with a JSON sidecar, with and without the XMP one: update calls and
\* plain calls that increment
StemOpts ==
    {[BaseOpts EXCEPT !.sidecar_json = TRUE, !.sidecar_xmp = x, !.update = u] :
        x \in BOOLEAN, u \in BOOLEAN}

NextStems ==
    \/ Export2Call({"A", "B"}, StemOpts, MaxClock)
    \/ DestRemove(MaxClock)

SpecStems == Init /\ [][NextStems]_vars

\* the asset a sidecar in the directory was written for
SidecarOf(f) == f.data[1]

\* C35: photo.heic and photo.jpg, exported with sidecars into one directory by
\* update calls or by calls that increment, never get the same sidecar path: no
\* call writes over the sidecar of another asset
C35_SidecarsNeverCollide ==
    [][\A p \in Paths :
          (p.e \in {"json", "xmp"} /\ Exists(Current, p) /\ fs'[p].kind = "file")
          => SidecarOf(fs'[p]) = SidecarOf(fs[p])]_vars

\* ---------------------------------------------- files of other assets
\* the _export_photo call found at its destination a file that the ledger gives
\* to another asset
OthersFile(c) == c.existed /\ c.owner \notin {None, c.uuid}

\* C31: no update call with a ledger removes or overwrites a destination file
\* that the ledger gives to another asset, be it the primary file, the live
\* video or the RAW image
C31_UpdateLeavesOthersFiles ==
    (last.kind = "call" /\ last.opts.update /\ last.opts.use_db)
    => \A c \in LastCalls : OthersFile(c) => c.after = c.before

\* C32: after an update call with a ledger that took its files from the library,
\* the ledger gives every path the call reports as new, updated or skipped to
\* the asset of the call
C32_ReportedPathsAreOwned ==
    (UpdateFromLibraryReturned /\ last.opts.use_db)
    => \A p \in Range(last.new) \cup Range(last.updated) \cup Range(last.skipped) :
          db[p].uuid = last.uuid

\* ------------------------------------------------------------ export runs
\* the results a run of the export command has collected so far, and the world
RunAcc(w, exported, new, updated, skipped, err) ==
    [w |-> w, exported |-> exported, new |-> new, updated |-> updated,
     skipped |-> skipped, err |-> err]

RECURSIVE RunLoop(_, _, _, _)
\* "results_exported.extend(results.exported)" and so on; an exception of
\* export2 ends the run
RunAdd(acc, r, o, photos, ch) ==
    IF r.err # None
    THEN RunAcc(r.w, acc.exported, acc.new, acc.updated, acc.skipped, r.err)
    ELSE RunLoop(RunAcc([r.w EXCEPT !.now = @ + 1],
                        acc.exported \cup Range(r.exported), acc.new \cup Range(r.new),
                        acc.updated \cup Range(r.updated), acc.skipped \cup Range(r.skipped),
                        None),
                 o, photos, ch)

\* "for p in photos: results = export_photo(p, dest, ...)"
RunLoop(acc, o, photos, ch) ==
    IF photos = <<>>
    THEN acc
    ELSE RunAdd(acc, export_photo(acc.w, o, Head(photos), ch), o, Tail(photos), ch)

\* the photos a query selects, in the order the library lists them
PhotoLists == {<<"A", "B">>, <<"B", "C">>}

\* the runs made so far
RunCount == IF run.kind = "none" THEN 0 ELSE run.n

\* the record of a run: what it was asked, whether anything happened between the
\* run before it and itself, and what it reported
RunSummary(acc, o, photos) ==
    [kind |-> "run", n |-> RunCount + 1, opts |-> o, photos |-> photos,
     quiet |-> last.kind = "run",
     exported |-> acc.exported, new |-> acc.new, updated |-> acc.updated,
     skipped |-> acc.skipped, err |-> acc.err]

\* the run's effects
CommitRun(acc, o, photos) ==
    /\ fs' = acc.w.fs
    /\ srcf' = acc.w.srcf
    /\ db' = acc.w.db
    /\ info' = acc.w.info
    /\ now' = now + Len(photos)
    /\ run' = RunSummary(acc, o, photos)

\* one run of the export command over the photos of a query
RunExport(opts, depth) ==
    \E o \in opts, photos \in PhotoLists, inplace \in BOOLEAN :
        /\ RunCount < MaxRuns
        /\ now + Len(photos) <= depth
        /\ o.exiftool \/ ~inplace
        /\ CommitRun(RunLoop(RunAcc(Current, {}, {}, {}, {}, None), o, photos,
                             Choice(Ascending, inplace, TRUE, FALSE, "none")),
                     o, photos)
        /\ prev' = run
        /\ UNCHANGED dirs
        /\ last' = [kind |-> "run"]
        /\ UNCHANGED <<meta, nenv>>

\* update runs of the export command: copies or links, with and without
\* exiftool, with and without the live videos
RunOpts ==
    {[BaseOpts EXCEPT !.update = TRUE, !.hardlink = h, !.exiftool = x, !.live = l] :
        h \in BOOLEAN, x \in BOOLEAN, l \in BOOLEAN}

\* the clock leaves room for MaxRuns runs of two photos and a change
RunsClock == 2 * MaxRuns + 1

NextRuns ==
    \/ RunExport(RunOpts, RunsClock)
    \/ SourceChange(Uuids, RunsClock)
    \/ DestModify(RunsClock)
    \/ DestRemove(RunsClock)

SpecRuns == Init /\ [][NextRuns]_vars

\* an update run that completed and was followed at once by a run with the same
\* flags over the same photos
Repeated ==
    /\ run.kind = "run"
    /\ prev.kind = "run"
    /\ run.quiet
    /\ run.opts = prev.opts
    /\ run.photos = prev.photos
    /\ prev.opts.update
    /\ prev.err = None

\* C1: a run in update mode that follows a completed run with the same flags, with
\* nothing changed in between, reports no new and no updated file, and skips
\* every path the first run reported
C1_SecondUpdateRunSkipsAll ==
    Repeated
    => (/\ run.err = None
        /\ run.new = {}
        /\ run.updated = {}
        /\ (prev.exported \cup prev.new \cup prev.updated \cup prev.skipped) \subseteq run.skipped)

\* ------------------------------------------------------ the export command
\* "exclusive = [(favorite, not_favorite), ...]": the pairs of options that
\* may not be given together, by the names of the options
Exclusive ==
    <<<<"favorite", "not_favorite">>, <<"hidden", "not_hidden">>,
      <<"title", "no_title">>, <<"description", "no_description">>,
      <<"only_photos", "only_movies">>, <<"burst", "not_burst">>,
      <<"live", "not_live">>, <<"portrait", "not_portrait">>,
      <<"screenshot", "not_screenshot">>, <<"slow_mo", "not_slow_mo">>,
      <<"time_lapse", "not_time_lapse">>, <<"hdr", "not_hdr">>,
      <<"selfie", "not_selfie">>, <<"panorama", "not_panorama">>,
      <<"export_by_date", "directory">>, <<"export_as_hardlink", "exiftool">>,
      <<"place", "no_place">>>>

\* the pairs that select photos: the two pairs about the export left out
IncompatibleQuery(given) ==
    \E i \in DOMAIN Exclusive :
        /\ Exclusive[i][1] \notin {"export_by_date", "export_as_hardlink"}
        /\ Exclusive[i][1] \in given
        /\ Exclusive[i][2] \in given

\* "any([all(bb) for bb in exclusive])"
Incompatible(given) ==
    \E i \in DOMAIN Exclusive : Exclusive[i][1] \in given /\ Exclusive[i][2] \in given

\* the options of a command line, as the sets of the options given. The two
\* directory options are given together or not at all: a run with one of them
\* exports into directories below DEST
GivenSets ==
    {{}, {"update"}, {"exiftool"}, {"export_as_hardlink"}, {"skip_raw"}, {"favorite"},
     {"update", "exiftool"}, {"export_as_hardlink", "exiftool"},
     {"export_as_hardlink", "exiftool", "update"}, {"export_by_date", "directory"},
     {"export_by_date", "directory", "skip_raw"}, {"favorite", "not_favorite"},
     {"title", "no_title"}}

\* what _query returns
QueryResults == {<<>>, <<"B", "C">>, <<"C", "B">>}

\* "(export_edited, export_bursts, export_live, export_raw) = [not x for x in
\*  [skip_edited, skip_bursts, skip_live, skip_raw]]" and the flags handed to
\* export_photo
CommandOpts(given) ==
    [BaseOpts EXCEPT !.update = "update" \in given,
                     !.hardlink = "export_as_hardlink" \in given,
                     !.exiftool = "exiftool" \in given,
                     !.overwrite = "overwrite" \in given,
                     !.download_missing = "download_missing" \in given,
                     !.export_edited = "skip_edited" \notin given,
                     !.live = "skip_live" \notin given,
                     !.raw = "skip_raw" \notin given]

\* how the command ended: what it did in order, and the way out
Ended(w, events, exit) == [w |-> w, events |-> events, exit |-> exit]

\* the photos of the loop that export_photo was called for: the loop stops at
\* the first call that raises
Attempted(w, o, photos, ch) ==
    {k \in 1..Len(photos) :
        RunLoop(RunAcc(w, {}, {}, {}, {}, None), o, SubSeq(photos, 1, k - 1), ch).err = None}

\* "if photos: ... for p in photos: results = export_photo(...) ... else:
\*  click.echo('Did not find any photos to export')", then "export_db.close()"
ExportLoop(w, o, photos, ch) ==
    LET acc == RunLoop(RunAcc(w, {}, {}, {}, {}, None), o, photos, ch)
        calls == [k \in 1..Cardinality(Attempted(w, o, photos, ch)) |-> "export_photo"]
    IN IF photos = <<>>
       THEN Ended(w, <<"ExportDB", "_query", "echo Did not find any photos to export",
                       "export_db.close">>, "return")
       ELSE IF acc.err # None
       THEN Ended(acc.w, <<"ExportDB", "_query">> \o calls, "raise")
       ELSE Ended(acc.w, <<"ExportDB", "_query">> \o calls \o <<"echo Exported", "export_db.close">>,
                  "return")

\* export(ctx, cli_obj, db, ..., dest, ...): the export command
export(w, given, isdir, exiftool_found, library_found, photos, ch) ==
    IF ~isdir
    THEN Ended(w, <<>>, "sys.exit")
    ELSE IF Incompatible(given)
    THEN Ended(w, <<"echo Incompatible export options", "echo help">>, "return")
    ELSE IF "exiftool" \in given /\ ~exiftool_found
    THEN Ended(w, <<"echo Could not find exiftool">>, "ctx.exit")
    ELSE IF ~library_found
    THEN Ended(w, <<"echo help", "_list_libraries">>, "return")
    ELSE ExportLoop(w, CommandOpts(given), photos, ch)

\* the record of an execution of the command
CommandSummary(c, given, isdir) ==
    [kind |-> "command", n |-> 1, given |-> given, isdir |-> isdir, events |-> c.events,
     exit |-> c.exit, fs_same |-> c.w.fs = fs, db_same |-> c.w.db = db]

\* the export command is run once, on a DEST that was empty
ExportCommand(depth) ==
    \E given \in GivenSets, isdir \in BOOLEAN, exiftool_found \in BOOLEAN,
       library_found \in BOOLEAN, photos \in QueryResults, inplace \in BOOLEAN :
        LET c == export(Current, given, isdir, exiftool_found, library_found, photos,
                        Choice(Ascending, inplace, TRUE, FALSE, "none"))
        IN /\ run.kind = "none"
           /\ now + 2 <= depth
           /\ "exiftool" \in given \/ ~inplace
           /\ fs' = c.w.fs
           /\ srcf' = c.w.srcf
           /\ db' = c.w.db
           /\ info' = c.w.info
           /\ now' = now + 2
           /\ run' = CommandSummary(c, given, isdir)
           /\ prev' = run
           /\ UNCHANGED dirs
           /\ last' = [kind |-> "command"]
           /\ UNCHANGED <<meta, nenv>>

NextCommand ==
    \/ ExportCommand(MaxClock)
    \/ SourceLost({<<"B", "orig">>, <<"C", "raw">>, <<"C", "edited">>}, MaxClock)

SpecCommand == Init /\ [][NextCommand]_vars

\* how often something was done in the execution
Times(event) == Cardinality({i \in DOMAIN run.events : run.events[i] = event})

\* both options of a pair that excludes each other were given
BothGiven ==
    /\ run.kind = "command"
    /\ \E i \in DOMAIN Exclusive : {Exclusive[i][1], Exclusive[i][2]} \subseteq run.given

\* C23: when both options of a mutually exclusive pair are given (--export-as-hardlink
\* with --exiftool, --export-by-date with --directory, or any other pair) the
\* export command opens no ledger, queries no library, exports no file and
\* changes neither the directory nor the ledger; run on a directory, it reports
\* "Incompatible export options" and returns
C23_ExclusiveOptionsStopTheCommand ==
    BothGiven
    => (/\ Times("ExportDB") = 0
        /\ Times("_query") = 0
        /\ Times("export_photo") = 0
        /\ run.fs_same
        /\ run.db_same
        /\ run.isdir => (/\ run.exit = "return"
                         /\ run.events # <<>>
                         /\ run.events[1] = "echo Incompatible export options"))

\* --export-as-hardlink was given with --exiftool and the command said so
C23_Witness ==
    /\ BothGiven
    /\ {"export_as_hardlink", "exiftool"} \subseteq run.given
    /\ run.isdir
    /\ run.events[1] = "echo Incompatible export options"

\* --export-by-date was given with --directory
C23_WitnessDirectory ==
    /\ BothGiven
    /\ {"export_by_date", "directory"} \subseteq run.given
    /\ run.isdir
    /\ run.exit = "return"

\* C24: in every execution of the export command the ledger is opened at most
\* once, and when it was opened it is closed before the command ends, whichever
\* way the command ends
C24_LedgerOpenedOnceAndClosed ==
    run.kind = "command"
    => (/\ Times("ExportDB") <= 1
        /\ Times("ExportDB") = 1
           => (/\ Times("export_db.close") = 1
               /\ run.events[Len(run.events)] = "export_db.close"))

\* ------------------------------------------------------ two workers at once
\* two workers call export2 at the same time, into the same directory and with
\* the same ledger: worker 1 for B, worker 2 for C, which ask for the same name
WorkerIds == {1, 2}

WorkerAsset(k) == IF k = 1 THEN "B" ELSE "C"

\* plain exports and update exports
WorkerOpts == {BaseOpts, [BaseOpts EXCEPT !.update = TRUE]}

\* where a worker is in its call: not in one, past the choice of the
\* destination, past the copy
Idle == [pc |-> "idle", n |-> 0]

Workers == IF run.kind = "workers" THEN run.at ELSE [k \in WorkerIds |-> Idle]

WorkersAt(at) == [kind |-> "workers", at |-> at]

\* the branch of _export_photo a worker takes when it comes to the file
CopyDecision(w, o, s, p) ==
    IF ~o.update THEN "copy"
    ELSE IF CopySkipsOrig(w, o, s, p) THEN "skip_orig"
    ELSE IF CopySkipsExif(w, o, s, p) THEN "skip"
    ELSE "copy"

\* the worker looks at the directory (and, updating, at the ledger) and settles
\* on its destination
WorkerResolve(k) ==
    \E o \in WorkerOpts :
        LET a == WorkerAsset(k)
            rd == ResolveDestination(Current, o, a, Ascending)
        IN /\ Workers[k].pc = "idle"
           /\ Workers[k].n < MaxRuns
           /\ DestinationFits(Current, o, a, Ascending)
           /\ db' = rd.w.db
           /\ info' = rd.w.info
           /\ run' = WorkersAt([Workers EXCEPT ![k] =
                         [pc |-> "resolved", n |-> @.n + 1, opts |-> o, dest |-> rd.dest]])
           /\ last' = NoCall
           /\ UNCHANGED <<fs, srcf, meta, now, nenv, prev, dirs>>

\* the worker is in _export_photo: it compares and copies the file
WorkerCopy(k) ==
    LET a == WorkerAsset(k)
        o == Workers[k].opts
        p == Workers[k].dest
        did == CopyDecision(Current, o, <<a, "orig">>, p)
    IN /\ Workers[k].pc = "resolved"
       /\ fs' = IF did = "copy" THEN CopyFile(Current, <<a, "orig">>, p).fs ELSE fs
       /\ run' = WorkersAt([Workers EXCEPT ![k] = [@ EXCEPT !.pc = "copied"] @@ [did |-> did]])
       /\ UNCHANGED <<srcf, meta, db, info, now, nenv, last, prev, dirs>>

\* the worker writes to the ledger what it did and returns
WorkerRecord(k) ==
    LET a == WorkerAsset(k)
        o == Workers[k].opts
        p == Workers[k].dest
        w == IF Workers[k].did = "copy" THEN SetLedger(Current, o, a, p)
             ELSE IF Workers[k].did = "skip_orig" THEN set_stat_orig_for_file(Current, o, p)
             ELSE Current
    IN /\ Workers[k].pc = "copied"
       /\ db' = w.db
       /\ info' = w.info
       /\ run' = WorkersAt([Workers EXCEPT ![k] = [pc |-> "idle", n |-> @.n]])
       /\ UNCHANGED <<fs, srcf, meta, now, nenv, last, prev, dirs>>

NextWorkers == \E k \in WorkerIds : WorkerResolve(k) \/ WorkerCopy(k) \/ WorkerRecord(k)

SpecWorkers == Init /\ [][NextWorkers]_vars

\* the worker has settled on a destination and has not returned
InFlight(k) == Workers[k].pc \in {"resolved", "copied"}

\* C25: two workers that export two assets with the same name into the same
\* directory never hold the same destination at the same time, and the ledger
\* never names one asset for a path whose file holds the other asset's image
C25_WorkersNeverCollide ==
    /\ (InFlight(1) /\ InFlight(2)) => Workers[1].dest # Workers[2].dest
    /\ \A p \in Paths :
          (Exists(Current, p) /\ db[p].uuid # None) => fs[p].data[1] = db[p].uuid

\* ------------------------------------------------ several directories
\* a directory that os.makedirs has just made
NewDir == [fs |-> [p \in Paths |-> NoFile], db |-> [p \in Paths |-> EmptyEntry]]

\* dest_paths: the first directory is the one of fs and db, the others are those
\* of dirs, made when they are not there ("if not os.path.isdir(dest_path):
\* os.makedirs(dest_path)")
DestPaths(nd) ==
    <<[fs |-> fs, db |-> db]>>
    \o [i \in 1..(nd - 1) |-> IF i <= Len(dirs) THEN dirs[i] ELSE NewDir]

\* the directories that the command did not name this time stay as they are
KeptDirs(nd) == IF Len(dirs) > nd - 1 THEN SubSeq(dirs, nd, Len(dirs)) ELSE <<>>

\* the state of the loop "for dest_path in dest_paths": the library and the
\* ledger's info table, the directories done, the value of use_photos_export,
\* the values export2 was given for the primary file, and the results
PathsAcc(w, done, use, given, exported, err, fits) ==
    [w |-> w, done |-> done, use |-> use, given |-> given, exported |-> exported,
     err |-> err, fits |-> fits]

\* the world of export2 in one directory
InDir(w, d) == [w EXCEPT !.fs = d.fs, !.db = d.db]

\* the arguments of the first export2 of the loop body:
\* "use_photos_export=use_photos_export", whatever the variable holds by now
PrimaryArgs(w, o, a, use) == [OriginalArgs(w, o, a) EXCEPT !.photos = use]

\* "if export_edited and photo.hasadjustments: use_photos_export =
\*  download_missing and photo.path_edited is None"
UseAfterEdited(w, o, a, use) ==
    IF o.export_edited /\ HasAdjustments(a)
    THEN o.download_missing /\ ~OnDisk(w, <<a, "edited">>)
    ELSE use

\* the names of both exports are among the stems the model keeps
PathFits(w, o, a, use, order) ==
    /\ IF SourceNotFound(w, PrimaryArgs(w, o, a, use), a)
       THEN FirstDestination(w, PrimaryArgs(w, o, a, use), a) \in Paths
       ELSE DestinationFits(w, PrimaryArgs(w, o, a, use), a, order)
    /\ IF ExportsEditedToo(w, o, a)
       THEN DestinationFits(w, EditedArgs(w, o, a), a, order)
       ELSE TRUE

\* one pass of the loop body: photo.export2(dest_path, filename, ...), then the
\* edited version
PathBody(acc, d, o, a, ch) ==
    LET w == InDir(acc.w, d)
        r == ExportEdited(export2(w, PrimaryArgs(w, o, a, acc.use), a, ch), o, a, ch)
    IN PathsAcc(r.w, Append(acc.done, [fs |-> r.w.fs, db |-> r.w.db]),
                UseAfterEdited(w, o, a, acc.use),
                Append(acc.given, acc.use), acc.exported \o r.exported, r.err, TRUE)

\* "for dest_path in dest_paths:"; an exception of export2 ends the loop and the
\* directories not reached stay as they were
RECURSIVE PathsLoop(_, _, _, _, _)
PathsLoop(acc, paths, o, a, ch) ==
    IF paths = <<>>
    THEN acc
    ELSE IF acc.err # None
    THEN PathsLoop([acc EXCEPT !.done = Append(@, Head(paths))], Tail(paths), o, a, ch)
    ELSE IF ~PathFits(InDir(acc.w, Head(paths)), o, a, acc.use, ch.order)
    THEN PathsLoop([acc EXCEPT !.done = Append(@, Head(paths)), !.fits = FALSE],
                   Tail(paths), o, a, ch)
    ELSE IF ~acc.fits
    THEN PathsLoop([acc EXCEPT !.done = Append(@, Head(paths))], Tail(paths), o, a, ch)
    ELSE PathsLoop(PathBody(acc, Head(paths), o, a, ch), Tail(paths), o, a, ch)

\* export_photo(photo, dest, ...) with a directory template that renders to the
\* directories of paths
export_photo_paths(w, paths, o, a, ch) ==
    IF SkipsMissing(w, o, a)
    THEN PathsAcc(w, paths, UsePhotosExport(w, o, a), <<>>, <<>>, None, TRUE)
    ELSE PathsLoop(PathsAcc(w, <<>>, UsePhotosExport(w, o, a), <<>>, <<>>, None, TRUE),
                   paths, o, a, ch)

\* the record of the call: what it was asked, the value use_photos_export should
\* have for the primary file, and the values export2 was given for it
PathsSummary(acc, o, a, nd) ==
    [kind |-> "paths", uuid |-> a, opts |-> o, nd |-> nd,
     decided |-> UsePhotosExport(Current, o, a), given |-> acc.given,
     exported |-> acc.exported, err |-> acc.err]

\* the export command exports one photo into the directories of its template
ExportPhotoPaths(assets, opts, depth) ==
    \E a \in assets, o \in opts, nd \in 1..MaxDirs, fetched \in BOOLEAN :
        LET acc == export_photo_paths(Current, DestPaths(nd), o, a,
                                      Choice(Ascending, FALSE, fetched, FALSE, "none"))
        IN /\ now < depth
           /\ o.download_missing \/ fetched
           /\ acc.fits
           /\ fs' = acc.done[1].fs
           /\ db' = acc.done[1].db
           /\ dirs' = Tail(acc.done) \o KeptDirs(nd)
           /\ srcf' = acc.w.srcf
           /\ info' = acc.w.info
           /\ now' = now + 1
           /\ last' = PathsSummary(acc, o, a, nd)
           /\ UNCHANGED <<meta, nenv, run, prev>>

\* export_photo with and without --download-missing, --export-edited, --update
PathsOpts ==
    {[BaseOpts EXCEPT !.download_missing = dm, !.export_edited = e, !.update = u] :
        dm \in BOOLEAN, e \in BOOLEAN, u \in BOOLEAN}

NextPaths ==
    \/ ExportPhotoPaths({"A"}, PathsOpts, MaxClock)
    \/ SourceLost({<<"A", "orig">>, <<"A", "edited">>}, MaxClock)

SpecPaths == Init /\ [][NextPaths]_vars

\* C30: when export_photo exports one photo to several directories, export2 is
\* given for the primary file the same use_photos_export in every directory:
\* download_missing and (ismissing or the original's path is not there)
C30_PrimaryDecisionSameInEveryDirectory ==
    last.kind = "paths"
    => \A i \in DOMAIN last.given : last.given[i] = last.decided

\* ------------------------------------------------------ the query command
\* "nonexclusive = [keyword, person, album, ...]"
QueryNonexclusive ==
    {"keyword", "person", "album", "folder", "uuid", "edited", "external_edit", "uti",
     "has_raw", "from_date", "to_date"}

\* "exclusive = [(favorite, not_favorite), ...]" of the query command
QueryExclusive ==
    <<<<"favorite", "not_favorite">>, <<"hidden", "not_hidden">>,
      <<"missing", "not_missing">>, <<"title", "no_title">>,
      <<"description", "no_description">>, <<"only_photos", "only_movies">>,
      <<"burst", "not_burst">>, <<"live", "not_live">>,
      <<"cloudasset", "not_cloudasset">>, <<"incloud", "not_incloud">>,
      <<"portrait", "not_portrait">>, <<"screenshot", "not_screenshot">>,
      <<"slow_mo", "not_slow_mo">>, <<"time_lapse", "not_time_lapse">>,
      <<"hdr", "not_hdr">>, <<"selfie", "not_selfie">>,
      <<"panorama", "not_panorama">>, <<"place", "no_place">>>>

\* "any(nonexclusive + [b ^ n for b, n in exclusive])"
AnyQueryTerm(given) ==
    \/ \E t \in QueryNonexclusive : t \in given
    \/ \E i \in DOMAIN QueryExclusive :
          (QueryExclusive[i][1] \in given) # (QueryExclusive[i][2] \in given)

\* the options a command line of the query command is made of
QueryOptions ==
    {"keyword", "favorite", "not_favorite", "missing", "not_missing", "hidden", "shared"}

\* query(ctx, cli_obj, db, ...): the query command
query(given, library_found) ==
    IF ~AnyQueryTerm(given)
    THEN [events |-> <<"echo Incompatible query options", "echo help">>, exit |-> "return"]
    ELSE IF ~library_found
    THEN [events |-> <<"echo help", "_list_libraries">>, exit |-> "return"]
    ELSE [events |-> <<"_query", "print_photo_info">>, exit |-> "return"]

\* the query command is run once
QueryCommand ==
    \E given \in SUBSET QueryOptions, library_found \in BOOLEAN :
        LET c == query(given, library_found)
        IN /\ last = NoCall
           /\ last' = [kind |-> "query", given |-> given, library_found |-> library_found,
                       events |-> c.events, exit |-> c.exit]
           /\ UNCHANGED <<fs, srcf, meta, db, info, now, nenv, run, prev, dirs>>

NextQuery == QueryCommand

SpecQuery == Init /\ [][NextQuery]_vars

\* both options of a pair of the query command were given
BothOfQueryPair(given) ==
    \E i \in DOMAIN QueryExclusive : {QueryExclusive[i][1], QueryExclusive[i][2]} \subseteq given

\* C37: whenever no query term is given, or both options of an exclusive pair
\* are given (also next to other valid terms), the query command prints
\* "Incompatible query options" with the help and runs no query
C37_BadQueryOptionsAreRejected ==
    (last.kind = "query" /\ (last.given = {} \/ BothOfQueryPair(last.given)))
    => (/\ last.events[1] = "echo Incompatible query options"
        /\ \A i \in DOMAIN last.events : last.events[i] # "_query")

\* ------------------------------------------------------ the search index
\* SEARCH_CATEGORY_LABEL, the category of the rows that are labels, and another one
SearchCategoryLabel == "label"

SearchCategories == {SearchCategoryLabel, "other"}

\* content_string of the rows of the index
ContentStrings == {"Dog", "dog", "Cat"}

\* normalized_string, as Photos writes it next to content_string: lower case
NormalizedString(content) ==
    IF content = "Dog" THEN "dog" ELSE IF content = "Cat" THEN "cat" ELSE content

\* the rows "select ... from ga join groups ... join assets ..." may return
SearchRows ==
    {[uuid |-> u, category |-> c, content_string |-> l,
      normalized_string |-> NormalizedString(l)] :
        u \in {"A", "B"}, c \in SearchCategories, l \in ContentStrings}

\* a dict is a function on its keys; "d[k] = v"
DictSet(d, k, v) == [x \in DOMAIN d \cup {k} |-> IF x = k THEN v ELSE d[x]]

\* "try: d[k].append(v) except KeyError: d[k] = [v]"
DictAppend(d, k, v) ==
    IF k \in DOMAIN d THEN DictSet(d, k, Append(d[k], v)) ELSE DictSet(d, k, <<v>>)

\* the two dicts of the labels, with one try block around both appends:
\* "try: labels[label].append(uuid); labels_normalized[label_norm].append(uuid)
\*  except KeyError: labels[label] = [uuid]; labels_normalized[label_norm] = [uuid]"
LabelsAppend(st, label, label_norm, uuid) ==
    IF label \in DOMAIN st.labels /\ label_norm \in DOMAIN st.labels_normalized
    THEN [st EXCEPT !.labels = DictSet(@, label, Append(@[label], uuid)),
                    !.labels_normalized = DictSet(@, label_norm, Append(@[label_norm], uuid))]
    ELSE [st EXCEPT !.labels = DictSet(@, label, <<uuid>>),
                    !.labels_normalized = DictSet(@, label_norm, <<uuid>>)]

\* the body of "for row in result.fetchall():"
ProcessRow(st, record) ==
    LET st1 == [st EXCEPT !.uuid = DictAppend(@, record.uuid, record),
                          !.categories = DictAppend(@, record.category,
                                                    record.normalized_string)]
    IN IF record.category = SearchCategoryLabel
       THEN LabelsAppend(st1, record.content_string, record.normalized_string, record.uuid)
       ELSE st1

\* _db_searchinfo_uuid, _db_searchinfo_categories, _db_searchinfo_labels and
\* _db_searchinfo_labels_normalized before the first row
NoSearchinfo == [uuid |-> <<>>, categories |-> <<>>, labels |-> <<>>, labels_normalized |-> <<>>]

\* PhotosDB._process_searchinfo(), on the rows of the index in their order
RECURSIVE process_searchinfo(_, _)
process_searchinfo(st, rows) ==
    IF rows = <<>> THEN st ELSE process_searchinfo(ProcessRow(st, Head(rows)), Tail(rows))

\* PhotosDB.labels_as_dict, before the sorting: {k: len(v)}
labels_as_dict(st) == [k \in DOMAIN st.labels |-> Len(st.labels[k])]

\* a library is opened and its search index is read
ProcessSearchinfo ==
    \E n \in 0..MaxRows :
        \E rows \in [1..n -> SearchRows] :
            /\ last = NoCall
            /\ last' = [kind |-> "searchinfo", rows |-> rows,
                        db |-> process_searchinfo(NoSearchinfo, rows)]
            /\ UNCHANGED <<fs, srcf, meta, db, info, now, nenv, run, prev, dirs>>

NextSearchinfo == ProcessSearchinfo

SpecSearchinfo == Init /\ [][NextSearchinfo]_vars

\* the rows of the label category that were processed
LabelRows ==
    {last.rows[i] : i \in {j \in DOMAIN last.rows : last.rows[j].category = SearchCategoryLabel}}

\* the list d[k] holds v
Listed(d, k, v) == k \in DOMAIN d /\ v \in Range(d[k])

\* C36: after _process_searchinfo, _db_searchinfo_labels[L] holds the uuid of
\* every label row whose content string is L, and
\* _db_searchinfo_labels_normalized[N] the uuid of every label row whose
\* normalized string is N, also when distinct labels share a normalized form
C36_LabelIndexIsComplete ==
    last.kind = "searchinfo"
    => \A r \in LabelRows :
          /\ Listed(last.db.labels, r.content_string, r.uuid)
          /\ Listed(last.db.labels_normalized, r.normalized_string, r.uuid)

\* ------------------------------------------------- the keywords of a sidecar
\* a string is the sequence of its characters; Alphabet lists the characters the
\* model uses in the order of their code points, the order sorted() compares by
Alphabet ==
    <<"/", "0", "1", "2", "A", "B", "K", "N", "O", "T", "U", "W", "X", "_",
      "a", "b", "c", "e", "i", "k", "l", "o", "p", "r", "s", "x">>

\* ord(c)
Code(c) == CHOOSE i \in 1..Len(Alphabet) : Alphabet[i] = c

\* a < b for two strings, as Python compares them: by the first character that
\* differs, a proper prefix before the longer string
RECURSIVE StrLess(_, _)
StrLess(a, b) ==
    IF b = <<>> THEN FALSE
    ELSE IF a = <<>> THEN TRUE
    ELSE IF Head(a) # Head(b) THEN Code(Head(a)) < Code(Head(b))
    ELSE StrLess(Tail(a), Tail(b))

\* one step of sorted(): x put before the first element that is greater
RECURSIVE Insert(_, _)
Insert(x, seq) ==
    IF seq = <<>> THEN <<x>>
    ELSE IF StrLess(x, Head(seq)) THEN <<x>> \o seq
    ELSE <<Head(seq)>> \o Insert(x, Tail(seq))

\* sorted(list)
RECURSIVE Sorted(_)
Sorted(seq) == IF seq = <<>> THEN <<>> ELSE Insert(seq[Len(seq)], Sorted(SubSeq(seq, 1, Len(seq) - 1)))

\* the list sorted (the JSON sidecar) or as it is (the XMP sidecar)
Ordered(seq, sort) == IF sort THEN Sorted(seq) ELSE seq

\* "needle in keyword": the keyword has the needle as a substring
Contains(keyword, needle) ==
    \E i \in 0..(Len(keyword) - Len(needle)) : SubSeq(keyword, i + 1, i + Len(needle)) = needle

\* _UNKNOWN_PERSON, the name Photos gives a face it has not named
UnknownPerson == <<"_", "U", "N", "K", "N", "O", "W", "N", "_">>

\* _OSXPHOTOS_NONE_SENTINEL, what render_template puts where a field has no value
NoneSentinel == <<"X", "_", "N", "O", "N", "E">>

\* _MAX_IPTC_KEYWORD_LEN
MaxIptcKeywordLen == 64

\* the strings of the library
K1 == <<"k", "1">>

K2 == <<"k", "2">>

Alice == <<"A", "l", "i", "c", "e">>

Bob == <<"B", "o", "b">>

Trip == <<"T", "r", "i", "p">>

Alps == <<"A", "l", "p", "s">>

Year == <<"2", "0", "2", "0">>

\* a string one character longer than an IPTC keyword may be
LongKeyword == [i \in 1..(MaxIptcKeywordLen + 1) |-> "x"]

\* PhotoInfo.keywords, PhotoInfo.persons and PhotoInfo.albums: lists, in the
\* order the library gives them
PhotoMetadata ==
    [keywords : {<<>>, <<K1, K2>>, <<K2, K1>>, <<K2, Alps>>},
     persons : {<<>>, <<Alice>>, <<UnknownPerson>>, <<Bob, Alice>>, <<Bob, UnknownPerson, Alice>>},
     albums : {<<>>, <<Trip>>, <<Trip, Alps>>}]

\* a template string and what render_template makes of it for the photo: the
\* rendered values and the substitutions it could not match
Template(str, rendered, unmatched) == [str |-> str, rendered |-> rendered, unmatched |-> unmatched]

TemplateYear == Template("{created.year}", <<Year>>, <<>>)

TemplateLong == Template("{descr}", <<LongKeyword>>, <<>>)

TemplateTitle == Template("{title}", <<NoneSentinel>>, <<>>)

TemplateFolder == Template("{created.year}/{title}", <<Year \o <<"/">> \o NoneSentinel>>, <<>>)

TemplateUnmatched == Template("{foo}", <<>>, <<"foo">>)

\* self.render_template(template_str, none_str=_OSXPHOTOS_NONE_SENTINEL, path_sep="/")
render_template(template) == <<template.rendered, template.unmatched>>

\* the keyword options of a sidecar: use_albums_as_keywords,
\* use_persons_as_keywords and keyword_template (None is the empty list)
KeywordOpts ==
    [use_albums_as_keywords : BOOLEAN, use_persons_as_keywords : BOOLEAN,
     keyword_template : {<<>>, <<TemplateYear>>, <<TemplateLong, TemplateYear>>,
                         <<TemplateTitle, TemplateUnmatched>>,
                         <<TemplateYear, TemplateFolder, TemplateLong>>}]

\* "for template_str in keyword_template: rendered, unmatched = self.render_template(...);
\*  if unmatched: logging.warning(...); rendered_keywords.extend(rendered)"
RECURSIVE RenderKeywords(_, _)
RenderKeywords(templates, acc) ==
    IF templates = <<>>
    THEN acc
    ELSE LET r == render_template(Head(templates))
         IN RenderKeywords(Tail(templates),
                [rendered |-> acc.rendered \o r[1],
                 log |-> IF r[2] # <<>>
                         THEN Append(acc.log, Event("logging.warning", "unmatched", Head(templates).str))
                         ELSE acc.log])

\* the keywords longer than the limit are dropped with those that have no value
DropNoValueAndLong(rendered_keywords) ==
    SelectSeq(rendered_keywords,
              LAMBDA keyword : ~Contains(keyword, NoneSentinel) /\ Len(keyword) <= MaxIptcKeywordLen)

\* "[keyword for keyword in rendered_keywords if _OSXPHOTOS_NONE_SENTINEL not in keyword]"
DropNoValue(rendered_keywords) ==
    SelectSeq(rendered_keywords, LAMBDA keyword : ~Contains(keyword, NoneSentinel))

\* "long_keywords = [long_str for long_str in rendered_keywords
\*  if len(long_str) > _MAX_IPTC_KEYWORD_LEN]": the list is for the warning only
LongKeywords(rendered_keywords) ==
    SelectSeq(rendered_keywords, LAMBDA long_str : Len(long_str) > MaxIptcKeywordLen)

\* "if long_keywords: logging.warning(...)"
WarnLongKeywords(log, rendered_keywords) ==
    IF LongKeywords(rendered_keywords) # <<>>
    THEN Append(log, Event("logging.warning", "long_keywords", LongKeywords(rendered_keywords)))
    ELSE log

\* "if keyword_template: ... keyword_list.extend(rendered_keywords)": the rendered
\* values, sorted in the JSON sidecar, without those that hold the sentinel
TemplateKeywords(o, sort) ==
    LET r == RenderKeywords(o.keyword_template, [rendered |-> <<>>, log |-> <<>>])
        rendered_keywords == DropNoValue(Ordered(r.rendered, sort))
    IN [keywords |-> rendered_keywords, log |-> WarnLongKeywords(r.log, rendered_keywords)]

\* every person of the photo is listed
PersonListUnfiltered(photo) == photo.persons

\* "person_list = [p for p in self.persons if p != _UNKNOWN_PERSON]"
PersonList(photo) == SelectSeq(photo.persons, LAMBDA p : p # UnknownPerson)

\* the keywords of a sidecar: the photo's own, the persons and the albums when
\* asked for, and the rendered templates; the JSON sidecar sorts each of the
\* lists it adds, the XMP sidecar adds them as they are
KeywordList(photo, o, sort) ==
    photo.keywords
    \o (IF o.use_persons_as_keywords THEN Ordered(PersonList(photo), sort) ELSE <<>>)
    \o (IF o.use_albums_as_keywords THEN Ordered(photo.albums, sort) ELSE <<>>)
    \o TemplateKeywords(o, sort).keywords

\* _exiftool_json_sidecar(use_albums_as_keywords, use_persons_as_keywords,
\* keyword_template): the keys IPTC:Keywords and XMP:TagsList (one list),
\* XMP:PersonInImage and XMP:Subject; an empty list stands for a key that is not set
exiftool_json_sidecar(photo, o) ==
    [kind |-> "json",
     keywords |-> KeywordList(photo, o, TRUE),
     persons |-> Sorted(PersonList(photo)),
     subject |-> photo.keywords \o Sorted(PersonList(photo)),
     log |-> TemplateKeywords(o, TRUE).log]

\* _xmp_sidecar(use_albums_as_keywords, use_persons_as_keywords, keyword_template):
\* the keywords, persons and subjects handed to the XMP template
xmp_sidecar(photo, o) ==
    [kind |-> "xmp",
     keywords |-> KeywordList(photo, o, FALSE),
     persons |-> PersonList(photo),
     subject |-> photo.keywords \o PersonList(photo),
     log |-> TemplateKeywords(o, FALSE).log]

\* a sidecar is made for a photo of the library
SidecarRecord(photo, o, out) == [kind |-> "sidecar", photo |-> photo, opts |-> o, out |-> out]

\* the JSON sidecar of a photo is computed; the function reads nothing but its
\* arguments, so one computation in a behaviour shows all it can do
JsonSidecar ==
    \E photo \in PhotoMetadata, o \in KeywordOpts :
        /\ last = NoCall
        /\ last' = SidecarRecord(photo, o, exiftool_json_sidecar(photo, o))
        /\ UNCHANGED <<fs, srcf, meta, db, info, now, nenv, run, prev, dirs>>

\* the XMP sidecar of a photo is computed
XmpSidecar ==
    \E photo \in PhotoMetadata, o \in KeywordOpts :
        /\ last = NoCall
        /\ last' = SidecarRecord(photo, o, xmp_sidecar(photo, o))
        /\ UNCHANGED <<fs, srcf, meta, db, info, now, nenv, run, prev, dirs>>

NextKeywords == JsonSidecar \/ XmpSidecar

SpecKeywords == Init /\ [][NextKeywords]_vars

\* the sidecar just computed is a JSON sidecar
JsonMade == last.kind = "sidecar" /\ last.out.kind = "json"

\* every value the templates of the call rendered
RenderedValues ==
    UNION {Range(last.opts.keyword_template[i].rendered) :
               i \in 1..Len(last.opts.keyword_template)}

\* the rendered values that do not hold the no-value sentinel
RenderedWithValue == {k \in RenderedValues : ~Contains(k, NoneSentinel)}

\* the names the keyword list is to hold
ExpectedKeywords ==
    Range(last.photo.keywords)
    \cup (IF last.opts.use_persons_as_keywords
          THEN Range(last.photo.persons) \ {UnknownPerson} ELSE {})
    \cup (IF last.opts.use_albums_as_keywords THEN Range(last.photo.albums) ELSE {})
    \cup RenderedWithValue

\* the list is in the order sorted() gives
IsSorted(seq) == \A i, j \in 1..Len(seq) : i < j => ~StrLess(seq[j], seq[i])

\* the photo of the example: keywords k1 and k2, the person Alice, persons as keywords
ExamplePhoto ==
    /\ last.photo = [keywords |-> <<K1, K2>>, persons |-> <<Alice>>, albums |-> <<>>]
    /\ last.opts.use_persons_as_keywords
    /\ ~last.opts.use_albums_as_keywords
    /\ last.opts.keyword_template = <<>>

\* C21 as claimed: the keyword list of the JSON sidecar holds the photo's keywords,
\* the persons and albums asked for and the rendered values that have a value,
\* and is sorted; PersonInImage is the persons without the unknown person, who is
\* in neither list
C21_KeywordListIsSortedUnion ==
    JsonMade
    => (/\ Range(last.out.keywords) = ExpectedKeywords
        /\ IsSorted(last.out.keywords)
        /\ Range(last.out.persons) = Range(last.photo.persons) \ {UnknownPerson}
        /\ UnknownPerson \notin Range(last.out.keywords) \cup Range(last.out.persons))

\* the number of entries of each part of the keyword list
OwnCount == Len(last.photo.keywords)

PersonCount ==
    IF last.opts.use_persons_as_keywords
    THEN Cardinality({i \in 1..Len(last.photo.persons) : last.photo.persons[i] # UnknownPerson})
    ELSE 0

AlbumCount == IF last.opts.use_albums_as_keywords THEN Len(last.photo.albums) ELSE 0

\* the part of the keyword list that starts after "from" entries and has "count" entries
Part(from, count) == SubSeq(last.out.keywords, from + 1, from + count)

\* C21 as amended: the keyword list of the JSON sidecar holds exactly the photo's
\* keywords, the persons and albums asked for and the rendered values that have a
\* value, nothing dropped as a duplicate; it is not sorted as a whole: the photo's
\* own keywords come first in the order the library gives them, then the persons
\* sorted, then the albums sorted, then the rendered values sorted. PersonInImage
\* is the persons without the unknown person, sorted; the unknown person is in
\* neither list. For keywords k1, k2 and the person Alice the list is
\* k1, k2, Alice, and PersonInImage is Alice
C21_KeywordListIsUnionInParts ==
    JsonMade
    => (/\ Range(last.out.keywords) = ExpectedKeywords
        /\ Len(last.out.keywords) >= OwnCount + PersonCount + AlbumCount
        /\ Part(0, OwnCount) = last.photo.keywords
        /\ IsSorted(Part(OwnCount, PersonCount))
        /\ Range(Part(OwnCount, PersonCount)) =
              (IF last.opts.use_persons_as_keywords
               THEN Range(last.photo.persons) \ {UnknownPerson} ELSE {})
        /\ IsSorted(Part(OwnCount + PersonCount, AlbumCount))
        /\ Range(Part(OwnCount + PersonCount, AlbumCount)) =
              (IF last.opts.use_albums_as_keywords THEN Range(last.photo.albums) ELSE {})
        /\ IsSorted(Part(OwnCount + PersonCount + AlbumCount,
                         Len(last.out.keywords) - (OwnCount + PersonCount + AlbumCount)))
        /\ Range(Part(OwnCount + PersonCount + AlbumCount,
                      Len(last.out.keywords) - (OwnCount + PersonCount + AlbumCount)))
              = RenderedWithValue
        /\ Range(last.out.persons) = Range(last.photo.persons) \ {UnknownPerson}
        /\ IsSorted(last.out.persons)
        /\ Len(last.out.persons) = Cardinality(Range(last.photo.persons) \ {UnknownPerson})
        /\ UnknownPerson \notin Range(last.out.keywords) \cup Range(last.out.persons)
        /\ ExamplePhoto
           => (last.out.keywords = <<K1, K2, Alice>> /\ last.out.persons = <<Alice>>))

\* the JSON sidecar of the example: k1, k2, Alice, which is not the sorted list
C21_Witness ==
    /\ JsonMade
    /\ ExamplePhoto
    /\ last.out.keywords = <<K1, K2, Alice>>
    /\ ~IsSorted(last.out.keywords)
    /\ last.out.persons = <<Alice>>

\* the JSON sidecar of a photo with the unknown person among its persons
C21_WitnessUnknown ==
    /\ JsonMade
    /\ last.photo.persons = <<Bob, UnknownPerson, Alice>>
    /\ last.opts.use_persons_as_keywords
    /\ last.out.persons = <<Alice, Bob>>

\* the call logged a warning about the length of these keywords
WarnedLong(long_keywords) ==
    \E i \in 1..Len(last.out.log) :
        /\ last.out.log[i].op = "logging.warning"
        /\ last.out.log[i].key = "long_keywords"
        /\ last.out.log[i].val = long_keywords

\* the call logged a warning about the length of some keywords
WarnedLongAny ==
    \E i \in 1..Len(last.out.log) :
        last.out.log[i].op = "logging.warning" /\ last.out.log[i].key = "long_keywords"

\* C22: in the JSON and in the XMP sidecar, every rendered template value that has
\* a value is in the keyword list whole, whatever its length; a warning is logged
\* when, and only when, one of them is longer than the IPTC limit, and the warning
\* names the long ones
C22_LongKeywordWarnedAndKept ==
    last.kind = "sidecar"
    => (/\ \A k \in RenderedWithValue : k \in Range(last.out.keywords)
        /\ ({k \in RenderedWithValue : Len(k) > MaxIptcKeywordLen} # {}) <=> WarnedLongAny
        /\ \A i \in 1..Len(last.out.log) :
              (last.out.log[i].op = "logging.warning" /\ last.out.log[i].key = "long_keywords")
              => Range(last.out.log[i].val) =
                    {k \in RenderedWithValue : Len(k) > MaxIptcKeywordLen})

\* a template rendered a value one character over the limit: warned about and kept
C22_Witness ==
    /\ last.kind = "sidecar"
    /\ last.out.kind = "xmp"
    /\ WarnedLong(<<LongKeyword>>)
    /\ LongKeyword \in Range(last.out.keywords)
    /\ Len(LongKeyword) = MaxIptcKeywordLen + 1

=============================================================================
